---- MODULE Spec2Model ----
(***************************************************************************)
(* python-healthvault: the HealthVaultConn connection object of            *)
(* healthvaultlib/healthvault.py (session / authorization state machine,   *)
(* request envelope builder, transport status check), the status           *)
(* classifier of healthvaultlib/exceptions.py and the response parsers of  *)
(* healthvaultlib/xmlutils.py.                                             *)
(*                                                                         *)
(* A behaviour is a sequence of calls made by a single-threaded caller on  *)
(* one connection object at a time; every action is one whole call, from   *)
(* entry to return or raise.  The platform's answers are inputs: each      *)
(* action draws the response(s) it reads from the sets below.  Responses   *)
(* are well-formed XML whose elements, when present, carry a non-empty     *)
(* identifier; what varies is the transport outcome, the HTTP status, the  *)
(* status/code and which of the optional elements are present.             *)
(***************************************************************************)
EXTENDS Integers, Sequences, FiniteSets, TLC

\* ------------------------------------------------------------------ bounds
MaxToken == 2    \* distinct user tokens (wctoken) a caller may supply
MaxId == 2       \* distinct record ids / person ids / app auth tokens the platform may return
MaxSecret == 1   \* distinct outcomes of the shared-secret random draw
MaxKey == 2      \* distinct outcomes of the notification-key random draw
MaxStatusCode == 70   \* status codes -MaxStatusCode..MaxStatusCode are classified
MaxNumber == 2100     \* the decimal numerals 0..MaxNumber are the numbers a response carries
MaxHashLen == 240     \* pad_rsa is handed digests of 0..MaxHashLen bytes

\* ------------------------------------------------------- values of Python
None == "None"       \* Python's None
Unset == "Unset"     \* an attribute never assigned on the object: reading it raises AttributeError
Absent == "Absent"   \* tree.find(path) found no element
NoCode == -1         \* the exception's code attribute when no code= was passed (None)

\* exception kinds; NoExc: the call returned normally
NoExc == "none"
ValueError == "ValueError"
AttributeError == "AttributeError"
SocketError == "socket.error"
HealthVaultException == "HealthVaultException"
HealthVaultTokenExpiredException == "HealthVaultTokenExpiredException"
HealthVaultAccessDeniedException == "HealthVaultAccessDeniedException"

\* healthvaultlib/status_codes.py
OK == 0
CREDENTIAL_TOKEN_EXPIRED == 7
ACCESS_DENIED == 11
AUTHENTICATED_SESSION_TOKEN_EXPIRED == 65
FAILED == 1

\* healthvaultlib/hvcrypto.py
rsa_n_bit_length == 2048

\* ------------------------------------------------------------ input sets
Tokens == {"wctoken" \o ToString(i) : i \in 1..MaxToken}
RecordIds == {"record" \o ToString(i) : i \in 1..MaxId}
PersonIds == {"person" \o ToString(i) : i \in 1..MaxId}
AuthTokens == {"auth" \o ToString(i) : i \in 1..MaxId}
SharedSecs == {"sharedsec" \o ToString(i) : i \in 1..MaxSecret}

StatusCodes == {OK, FAILED, CREDENTIAL_TOKEN_EXPIRED, ACCESS_DENIED, AUTHENTICATED_SESSION_TOKEN_EXPIRED}

\* healthvaultlib/datatypes.py: the type ids a caller asks for
DataTypes == {"3d34d87e-7fc1-4153-800f-f56592cb0d17", "40750a6a-89b2-455c-bd8d-b420a4cb500b"}

\* What one network exchange yields: the transport outcome (conn.send raising
\* socket.error or not), the HTTP status, and the parsed body: status/code and
\* the elements the callers look for.
Response(sock, http, code, token, rid, pid) ==
    [sock |-> sock, http |-> http, code |-> code, token |-> token,
     selected_record_id |-> rid, person_id |-> pid,
     info |-> (token # Absent \/ rid # Absent \/ pid # Absent), subscription_id |-> Absent]

\* a status-0 answer with an info element, holding a subscription-id element or not
InfoResponse(sub_id) ==
    [Response(FALSE, 200, OK, Absent, Absent, Absent) EXCEPT !.info = TRUE, !.subscription_id = sub_id]

\* A transport failure or a non-200 answer has no body that is read; a body
\* with a nonzero status/code carries an error message and no info element.
FailedResponses ==
    {Response(TRUE, 200, OK, Absent, Absent, Absent)}
    \cup {Response(FALSE, 201, c, Absent, Absent, Absent) : c \in {OK, FAILED}}
    \cup {Response(FALSE, 200, c, Absent, Absent, Absent) : c \in StatusCodes \ {OK}}

\* answers to CreateAuthenticatedSessionToken
AuthResponses ==
    FailedResponses
    \cup {Response(FALSE, 200, OK, t, Absent, Absent) : t \in AuthTokens \cup {Absent}}
    \cup {Response(FALSE, 201, OK, t, Absent, Absent) : t \in AuthTokens}

\* answers to GetPersonInfo: person i has selected record i; either element
\* may be missing
PersonResponses ==
    FailedResponses
    \cup {Response(FALSE, h, OK, Absent, "record" \o ToString(i), "person" \o ToString(i)) :
             h \in {200, 201}, i \in 1..MaxId}
    \cup {Response(FALSE, 200, OK, Absent, r, Absent) : r \in RecordIds \cup {Absent}}
    \cup {Response(FALSE, 200, OK, Absent, Absent, p) : p \in PersonIds}

\* answers to any other method: with or without an info element (its content
\* is parsed by the typed parsers); a non-200 answer may carry any body
OtherResponses ==
    FailedResponses
    \cup {Response(FALSE, 200, OK, Absent, Absent, Absent), InfoResponse(Absent)}
    \cup {[InfoResponse(Absent) EXCEPT !.http = 201]}

\* answers to the other subscription and alternate-id methods and to the
\* typed getters: one of each kind of outcome
FewResponses ==
    {Response(TRUE, 200, OK, Absent, Absent, Absent), Response(FALSE, 200, FAILED, Absent, Absent, Absent),
     [InfoResponse(Absent) EXCEPT !.http = 201],
     Response(FALSE, 200, OK, Absent, Absent, Absent), InfoResponse(Absent)}

\* answers to SubscribeToEvent
SubscriptionIds == {"subscription1", "subscription2"}
SubscribeResponses ==
    FewResponses \cup {InfoResponse(s) : s \in SubscriptionIds}

\* ------------------------------------------------------------------ state
VARIABLES
    phase,       \* "unbuilt": no object yet; "ready": the constructor returned; "failed": it raised
    wctoken,     \* self.wctoken
    record_id,   \* self.record_id
    person_id,   \* self.person_id
    authorized,  \* self.authorized
    auth_token,  \* self.auth_token
    sharedsec,   \* self.sharedsec
    app_id,      \* self.app_id
    shell_server, \* self.shell_server
    sent,        \* the request payloads the last call handed to the transport, in order
    last,        \* the last call: its name, arguments, the object before it, the responses it read, how it ended
    call         \* the last application of a function of the library that takes no connection

vars == <<phase, wctoken, record_id, person_id, authorized, auth_token, sharedsec, app_id, shell_server, sent, last, call>>

\* the object's fields as one value
Self == [wctoken |-> wctoken, record_id |-> record_id, person_id |-> person_id,
         authorized |-> authorized, auth_token |-> auth_token, sharedsec |-> sharedsec,
         app_id |-> app_id, shell_server |-> shell_server]

\* How a call ended: the object as the call left it, the exception raised
\* (NoExc when it returned) with its code attribute, the returned value, the
\* payloads sent, the responses read and the values taken from the random
\* source.
Result(self, exc, code, ret, snt, recv) ==
    [self |-> self, exc |-> exc, code |-> code, ret |-> ret, sent |-> snt, recv |-> recv,
     drawn |-> <<>>]

\* ------------------------------------------------------- request payloads
\* base64(SHA-1(x)) and base64(HMAC-SHA1(key, x)), as injective encodings
sha1(x) == <<"sha1", x>>
hmac_sha1(key, x) == <<"hmac-sha1", key, x>>
NoDigest == <<>>     \* the request carries no such digest element

\* The fields of a request body that the platform reads.  An element the
\* request does not carry is Absent.  layout: the parts the body is
\* concatenated from, in order.
Payload(layout, method, version, target_person_id, rid, atok, utok, info, info_hash, auth, shared_secret) ==
    [layout |-> layout, method |-> method, method_version |-> version,
     target_person_id |-> target_person_id,
     record_id |-> rid, auth_token |-> atok, user_auth_token |-> utok,
     info |-> info, info_hash |-> info_hash, auth |-> auth, shared_secret |-> shared_secret]

\* the <header> of an enveloped request, as the string the HMAC is taken over
Header(method, version, target_person_id, rid, atok, utok, info_hash) ==
    <<method, version, target_person_id, rid, atok, utok, info_hash>>

\* the app_id and shell_server arguments of the constructor
AppId == "123"
ShellServer == "shell.server"

\* ------------------------------------------------------------ the methods
\* exceptions._get_exception_class_for
_get_exception_class_for(code) ==
    IF code = CREDENTIAL_TOKEN_EXPIRED THEN HealthVaultTokenExpiredException
    ELSE IF code = ACCESS_DENIED THEN HealthVaultAccessDeniedException
    ELSE HealthVaultException

\* variant: a nonzero status also drops the record binding
_send_request_invalidating(self, payload, resp) ==
    IF resp.sock
    THEN Result(self, SocketError, NoCode, <<>>, <<payload>>, <<resp>>)
    ELSE IF resp.http # 200
    THEN Result(self, HealthVaultException, NoCode, <<>>, <<payload>>, <<resp>>)
    ELSE IF resp.code # 0
    THEN Result([self EXCEPT !.record_id = None, !.person_id = None, !.authorized = FALSE],
                HealthVaultException, resp.code, <<>>, <<payload>>, <<resp>>)
    ELSE Result(self, NoExc, NoCode, <<resp>>, <<payload>>, <<resp>>)

\* variant: a request that fails in transport is sent once more
_send_request_retrying(self, payload, resp) ==
    IF resp.sock
    THEN Result(self, SocketError, NoCode, <<>>, <<payload, payload>>, <<resp, resp>>)
    ELSE IF resp.http # 200
    THEN Result(self, HealthVaultException, NoCode, <<>>, <<payload>>, <<resp>>)
    ELSE IF resp.code # 0
    THEN Result(self, HealthVaultException, resp.code, <<>>, <<payload>>, <<resp>>)
    ELSE Result(self, NoExc, NoCode, <<resp>>, <<payload>>, <<resp>>)

\* variant: the body is read and its status/code consulted whatever the HTTP status
_send_request_reads_body(self, payload, resp) ==
    IF resp.sock
    THEN Result(self, SocketError, NoCode, <<>>, <<payload>>, <<resp>>)
    ELSE IF resp.code # 0
    THEN Result(self, HealthVaultException, resp.code, <<>>, <<payload>>, <<resp>>)
    ELSE Result(self, NoExc, NoCode, <<resp>>, <<payload>>, <<resp>>)

\* variant: a session-expiry status drops the app auth token
_send_request_renewing(self, payload, resp) ==
    IF resp.sock
    THEN Result(self, SocketError, NoCode, <<>>, <<payload>>, <<resp>>)
    ELSE IF resp.http # 200
    THEN Result(self, HealthVaultException, NoCode, <<>>, <<payload>>, <<resp>>)
    ELSE IF resp.code = AUTHENTICATED_SESSION_TOKEN_EXPIRED
    THEN Result([self EXCEPT !.auth_token = None], HealthVaultException, resp.code, <<>>, <<payload>>, <<resp>>)
    ELSE IF resp.code # 0
    THEN Result(self, HealthVaultException, resp.code, <<>>, <<payload>>, <<resp>>)
    ELSE Result(self, NoExc, NoCode, <<resp>>, <<payload>>, <<resp>>)

\* HealthVaultConn._send_request: post the payload, read the answer
_send_request(self, payload, resp) ==
    IF resp.sock
    THEN Result(self, SocketError, NoCode, <<>>, <<payload>>, <<resp>>)
    ELSE IF resp.http # 200
    THEN Result(self, HealthVaultException, NoCode, <<>>, <<payload>>, <<resp>>)
    ELSE IF resp.code # 0
    THEN Result(self, HealthVaultException, resp.code, <<>>, <<payload>>, <<resp>>)
    ELSE Result(self, NoExc, NoCode, <<resp>>, <<payload>>, <<resp>>)

\* variant: the header names the record whenever the connection has one
_build_and_send_request_always_record(self, method_name, info, method_version, use_record_id, use_target_person_id, use_wctoken, resp) ==
    LET infodigest == sha1(info)
        tpid == IF use_target_person_id THEN self.person_id ELSE Absent
        rid == IF use_record_id \/ self.record_id # None THEN self.record_id ELSE Absent
        utok == IF use_wctoken THEN self.wctoken ELSE Absent
        header == Header(method_name, method_version, tpid, rid, self.auth_token, utok, infodigest)
        payload == Payload(<<"auth", "header", "info">>, method_name, method_version, tpid, rid,
                           self.auth_token, utok,
                           info, infodigest, hmac_sha1(self.sharedsec, header), Absent)
    IN  IF use_target_person_id /\ self.person_id = Unset
        THEN Result(self, AttributeError, NoCode, <<>>, <<>>, <<>>)
        ELSE IF use_target_person_id /\ self.person_id = None
        THEN Result(self, ValueError, NoCode, <<>>, <<>>, <<>>)
        ELSE IF use_record_id /\ self.record_id = None
        THEN Result(self, ValueError, NoCode, <<>>, <<>>, <<>>)
        ELSE IF use_wctoken /\ self.wctoken = None
        THEN Result(self, ValueError, NoCode, <<>>, <<>>, <<>>)
        ELSE _send_request(self, payload, resp)

\* variant: the info-hash is taken over the method name
_build_and_send_request_hashes_method(self, method_name, info, method_version, use_record_id, use_target_person_id, use_wctoken, resp) ==
    LET infodigest == sha1(method_name)
        tpid == IF use_target_person_id THEN self.person_id ELSE Absent
        rid == IF use_record_id THEN self.record_id ELSE Absent
        utok == IF use_wctoken THEN self.wctoken ELSE Absent
        header == Header(method_name, method_version, tpid, rid, self.auth_token, utok, infodigest)
        payload == Payload(<<"auth", "header", "info">>, method_name, method_version, tpid, rid,
                           self.auth_token, utok,
                           info, infodigest, hmac_sha1(self.sharedsec, header), Absent)
    IN  IF use_target_person_id /\ self.person_id = Unset
        THEN Result(self, AttributeError, NoCode, <<>>, <<>>, <<>>)
        ELSE IF use_target_person_id /\ self.person_id = None
        THEN Result(self, ValueError, NoCode, <<>>, <<>>, <<>>)
        ELSE IF use_record_id /\ self.record_id = None
        THEN Result(self, ValueError, NoCode, <<>>, <<>>, <<>>)
        ELSE IF use_wctoken /\ self.wctoken = None
        THEN Result(self, ValueError, NoCode, <<>>, <<>>, <<>>)
        ELSE _send_request(self, payload, resp)

\* HealthVaultConn._build_and_send_request: wrap info in the signed envelope
_build_and_send_request(self, method_name, info, method_version, use_record_id, use_target_person_id, use_wctoken, resp) ==
    LET infodigest == sha1(info)
        tpid == IF use_target_person_id THEN self.person_id ELSE Absent
        rid == IF use_record_id THEN self.record_id ELSE Absent
        utok == IF use_wctoken THEN self.wctoken ELSE Absent
        header == Header(method_name, method_version, tpid, rid, self.auth_token, utok, infodigest)
        payload == Payload(<<"auth", "header", "info">>, method_name, method_version, tpid, rid,
                           self.auth_token, utok,
                           info, infodigest, hmac_sha1(self.sharedsec, header), Absent)
    IN  IF use_target_person_id /\ self.person_id = Unset
        THEN Result(self, AttributeError, NoCode, <<>>, <<>>, <<>>)
        ELSE IF use_target_person_id /\ self.person_id = None
        THEN Result(self, ValueError, NoCode, <<>>, <<>>, <<>>)
        ELSE IF use_record_id /\ self.record_id = None
        THEN Result(self, ValueError, NoCode, <<>>, <<>>, <<>>)
        ELSE IF use_wctoken /\ self.wctoken = None
        THEN Result(self, ValueError, NoCode, <<>>, <<>>, <<>>)
        ELSE _send_request(self, payload, resp)

\* variant: the token element is not checked; a missing one yields None
_get_auth_token_unchecked(self, resp) ==
    LET payload == Payload(<<"header", "info">>, "CreateAuthenticatedSessionToken", 1, Absent, Absent, Absent, Absent,
                           "<info><auth-info/></info>", NoDigest, NoDigest, self.sharedsec)
        r == _send_request(self, payload, resp)
    IN  IF r.exc # NoExc THEN r
        ELSE Result(self, NoExc, NoCode, <<IF resp.token = Absent THEN None ELSE resp.token>>, r.sent, r.recv)

\* HealthVaultConn._get_auth_token: the CreateAuthenticatedSessionToken exchange
_get_auth_token(self, resp) ==
    LET payload == Payload(<<"header", "info">>, "CreateAuthenticatedSessionToken", 1, Absent, Absent, Absent, Absent,
                           "<info><auth-info/></info>", NoDigest, NoDigest, self.sharedsec)
        r == _send_request(self, payload, resp)
    IN  IF r.exc # NoExc THEN r
        ELSE IF resp.token = Absent
        THEN Result(self, HealthVaultException, NoCode, <<>>, r.sent, r.recv)
        ELSE Result(self, NoExc, NoCode, <<resp.token>>, r.sent, r.recv)

\* variant: the envelope is built with the default use_record_id=True
_get_record_id_default_flags(self, resp) ==
    LET r == _build_and_send_request(self, "GetPersonInfo", "<info/>", 1, TRUE, FALSE, TRUE, resp)
    IN  IF r.exc # NoExc THEN r
        ELSE IF resp.selected_record_id = Absent
        THEN Result(self, HealthVaultException, NoCode, <<>>, r.sent, r.recv)
        ELSE IF resp.person_id = Absent
        THEN Result(self, HealthVaultException, NoCode, <<>>, r.sent, r.recv)
        ELSE Result(self, NoExc, NoCode, <<resp.selected_record_id, resp.person_id>>, r.sent, r.recv)

\* HealthVaultConn._get_record_id: the GetPersonInfo exchange
_get_record_id(self, resp) ==
    LET r == _build_and_send_request(self, "GetPersonInfo", "<info/>", 1, FALSE, FALSE, TRUE, resp)
    IN  IF r.exc # NoExc THEN r
        ELSE IF resp.selected_record_id = Absent
        THEN Result(self, HealthVaultException, NoCode, <<>>, r.sent, r.recv)
        ELSE IF resp.person_id = Absent
        THEN Result(self, HealthVaultException, NoCode, <<>>, r.sent, r.recv)
        ELSE Result(self, NoExc, NoCode, <<resp.selected_record_id, resp.person_id>>, r.sent, r.recv)

\* variant: authorized is set before the record is resolved
connect_authorizes_first(self, wct, resp) ==
    LET s1 == [self EXCEPT !.wctoken = wct, !.authorized = TRUE]
        r == _get_record_id(s1, resp)
    IN  IF r.exc # NoExc
        THEN Result(s1, r.exc, r.code, <<>>, r.sent, r.recv)
        ELSE Result([s1 EXCEPT !.record_id = r.ret[1], !.person_id = r.ret[2]],
                    NoExc, NoCode, <<>>, r.sent, r.recv)

\* variant: record_id is stored as soon as its element is found, before the
\* person-id element is looked for
connect_partial(self, wct, resp) ==
    LET s1 == [self EXCEPT !.wctoken = wct]
        r == _get_record_id(s1, resp)
        got == Len(r.recv) = 1 /\ ~r.recv[1].sock /\ r.recv[1].http = 200 /\ r.recv[1].code = 0
                /\ r.recv[1].selected_record_id # Absent
        s2 == IF got THEN [s1 EXCEPT !.record_id = r.recv[1].selected_record_id] ELSE s1
    IN  IF r.exc # NoExc
        THEN Result(s2, r.exc, r.code, <<>>, r.sent, r.recv)
        ELSE Result([s2 EXCEPT !.person_id = r.ret[2], !.authorized = TRUE],
                    NoExc, NoCode, <<>>, r.sent, r.recv)

\* variant: the old binding is cleared before the new one is resolved
connect_resets_first(self, wct, resp) ==
    LET s1 == [self EXCEPT !.wctoken = wct, !.record_id = None, !.person_id = None,
                            !.authorized = FALSE]
        r == _get_record_id(s1, resp)
    IN  IF r.exc # NoExc
        THEN Result(s1, r.exc, r.code, <<>>, r.sent, r.recv)
        ELSE Result([s1 EXCEPT !.record_id = r.ret[1], !.person_id = r.ret[2],
                                !.authorized = TRUE],
                    NoExc, NoCode, <<>>, r.sent, r.recv)

\* variant: the pair returned by _get_record_id is unpacked in the wrong order
connect_swapped(self, wct, resp) ==
    LET s1 == [self EXCEPT !.wctoken = wct]
        r == _get_record_id(s1, resp)
    IN  IF r.exc # NoExc
        THEN Result(s1, r.exc, r.code, <<>>, r.sent, r.recv)
        ELSE Result([s1 EXCEPT !.record_id = r.ret[2], !.person_id = r.ret[1],
                                !.authorized = TRUE],
                    NoExc, NoCode, <<>>, r.sent, r.recv)

\* variant: a connect that raises leaves the connection unauthorized
connect_deauthorizes(self, wct, resp) ==
    LET s1 == [self EXCEPT !.wctoken = wct]
        r == _get_record_id(s1, resp)
    IN  IF r.exc # NoExc
        THEN Result([s1 EXCEPT !.authorized = FALSE], r.exc, r.code, <<>>, r.sent, r.recv)
        ELSE Result([s1 EXCEPT !.record_id = r.ret[1], !.person_id = r.ret[2],
                                !.authorized = TRUE],
                    NoExc, NoCode, <<>>, r.sent, r.recv)

\* HealthVaultConn.connect
connect(self, wct, resp) ==
    LET s1 == [self EXCEPT !.wctoken = wct]
        r == _get_record_id(s1, resp)
    IN  IF r.exc # NoExc
        THEN Result(s1, r.exc, r.code, <<>>, r.sent, r.recv)
        ELSE Result([s1 EXCEPT !.record_id = r.ret[1], !.person_id = r.ret[2],
                                !.authorized = TRUE],
                    NoExc, NoCode, <<>>, r.sent, r.recv)

\* HealthVaultConn.is_authorized
is_authorized(self) == self.authorized

\* variant: the session token is fetched but not kept in self.auth_token
init_drops_auth_token(public_key_long, private_key_long, wct, sec, resp1, resp2) ==
    LET s0 == [wctoken |-> wct, record_id |-> None, person_id |-> Unset,
               authorized |-> FALSE, auth_token |-> Unset, sharedsec |-> sec,
               app_id |-> AppId, shell_server |-> ShellServer]
        a == _get_auth_token(s0, resp1)
        c == connect(s0, wct, resp2)
        r == IF ~public_key_long \/ ~private_key_long
             THEN Result(s0, ValueError, NoCode, <<>>, <<>>, <<>>)
             ELSE IF a.exc # NoExc
             THEN Result(s0, a.exc, a.code, <<>>, a.sent, a.recv)
             ELSE IF wct # None
             THEN Result(c.self, c.exc, c.code, <<>>, a.sent \o c.sent, a.recv \o c.recv)
             ELSE Result(s0, NoExc, NoCode, <<>>, a.sent, a.recv)
    IN  [r EXCEPT !.drawn = <<sec>>]

\* variant: the keys are checked after the session token was fetched
init_checks_keys_late(public_key_long, private_key_long, wct, sec, resp1, resp2) ==
    LET s0 == [wctoken |-> wct, record_id |-> None, person_id |-> Unset,
               authorized |-> FALSE, auth_token |-> Unset, sharedsec |-> sec,
               app_id |-> AppId, shell_server |-> ShellServer]
        a == _get_auth_token(s0, resp1)
        s1 == [s0 EXCEPT !.auth_token = a.ret[1]]
        c == connect(s1, wct, resp2)
        r == IF a.exc # NoExc
             THEN Result(s0, a.exc, a.code, <<>>, a.sent, a.recv)
             ELSE IF ~public_key_long \/ ~private_key_long
             THEN Result(s1, ValueError, NoCode, <<>>, a.sent, a.recv)
             ELSE IF wct # None
             THEN Result(c.self, c.exc, c.code, <<>>, a.sent \o c.sent, a.recv \o c.recv)
             ELSE Result(s1, NoExc, NoCode, <<>>, a.sent, a.recv)
    IN  [r EXCEPT !.drawn = <<sec>>]

\* variant: the record is resolved before the session token is fetched
init_connects_first(public_key_long, private_key_long, wct, sec, resp1, resp2) ==
    LET s0 == [wctoken |-> wct, record_id |-> None, person_id |-> Unset,
               authorized |-> FALSE, auth_token |-> Unset, sharedsec |-> sec,
               app_id |-> AppId, shell_server |-> ShellServer]
        c == IF wct # None THEN connect(s0, wct, resp2) ELSE Result(s0, NoExc, NoCode, <<>>, <<>>, <<>>)
        a == _get_auth_token(c.self, resp1)
        r == IF ~public_key_long \/ ~private_key_long
             THEN Result(s0, ValueError, NoCode, <<>>, <<>>, <<>>)
             ELSE IF c.exc # NoExc
             THEN Result(c.self, c.exc, c.code, <<>>, c.sent, c.recv)
             ELSE IF a.exc # NoExc
             THEN Result(c.self, a.exc, a.code, <<>>, c.sent \o a.sent, c.recv \o a.recv)
             ELSE Result([c.self EXCEPT !.auth_token = a.ret[1]], NoExc, NoCode, <<>>,
                         c.sent \o a.sent, c.recv \o a.recv)
    IN  [r EXCEPT !.drawn = <<sec>>]

\* HealthVaultConn.__init__; public_key_long / private_key_long: isinstance(key, long);
\* sec: the outcome of randint for the shared secret
__init__(public_key_long, private_key_long, wct, sec, resp1, resp2) ==
    LET s0 == [wctoken |-> wct, record_id |-> None, person_id |-> Unset,
               authorized |-> FALSE, auth_token |-> Unset, sharedsec |-> sec,
               app_id |-> AppId, shell_server |-> ShellServer]
        a == _get_auth_token(s0, resp1)
        s1 == [s0 EXCEPT !.auth_token = a.ret[1]]
        c == connect(s1, wct, resp2)
        r == IF ~public_key_long \/ ~private_key_long
             THEN Result(s0, ValueError, NoCode, <<>>, <<>>, <<>>)
             ELSE IF a.exc # NoExc
             THEN Result(s0, a.exc, a.code, <<>>, a.sent, a.recv)
             ELSE IF wct # None
             THEN Result(c.self, c.exc, c.code, <<>>, a.sent \o c.sent, a.recv \o c.recv)
             ELSE Result(s1, NoExc, NoCode, <<>>, a.sent, a.recv)
    IN  [r EXCEPT !.drawn = <<sec>>]

\* HealthVaultConn.get_things, up to the info element it returns
get_things(self, hv_datatype, resp) ==
    _build_and_send_request(self, "GetThings", <<"<info><group>", hv_datatype>>, 1, TRUE, FALSE, TRUE, resp)

\* HealthVaultConn.associate_alternate_id / disassociate_alternate_id
alternate_id(self, method_name, idstring, resp) ==
    _build_and_send_request(self, method_name, <<"<info><alternate-id>", idstring>>, 1, TRUE, FALSE, TRUE, resp)

\* HealthVaultConn.unsubscribe_to_event
unsubscribe_to_event(self, sub_id, resp) ==
    _build_and_send_request(self, "UnsubscribeToEvent", <<"<info><subscription-id>", sub_id>>, 1, TRUE, FALSE, FALSE, resp)

\* the typed getters built on get_things (get_height_measurements,
\* get_weight_measurements, ...): get_things, then info.find / info.findall;
\* what the parser makes of the elements found is in the parse_* functions
get_measurements(self, hv_datatype, resp) ==
    LET r == get_things(self, hv_datatype, resp)
    IN  IF r.exc # NoExc THEN r
        ELSE IF ~resp.info
        THEN Result(self, AttributeError, NoCode, <<>>, r.sent, r.recv)
        ELSE Result(self, NoExc, NoCode, <<resp>>, r.sent, r.recv)

\* HealthVaultConn.get_blood_glucose_measurements: DataType has no attribute
\* blood_glucose_measurement, so evaluating the argument of get_things raises
get_blood_glucose_measurements(self, resp) ==
    Result(self, AttributeError, NoCode, <<>>, <<>>, <<>>)

\* HealthVaultConn.get_alternate_ids
get_alternate_ids(self, resp) ==
    LET r == _build_and_send_request(self, "GetAlternateIds", "<info/>", 1, TRUE, FALSE, TRUE, resp)
    IN  IF r.exc # NoExc THEN r
        ELSE IF ~resp.info
        THEN Result(self, AttributeError, NoCode, <<>>, r.sent, r.recv)
        ELSE Result(self, NoExc, NoCode, <<resp>>, r.sent, r.recv)

\* HealthVaultConn.get_event_subscriptions
get_event_subscriptions(self, resp) ==
    LET r == _build_and_send_request(self, "GetEventSubscriptions", "<info/>", 1, TRUE, FALSE, FALSE, resp)
    IN  IF r.exc # NoExc THEN r
        ELSE IF ~resp.info
        THEN Result(self, AttributeError, NoCode, <<>>, r.sent, r.recv)
        ELSE Result(self, NoExc, NoCode, <<resp>>, r.sent, r.recv)

\* A URL handed to subscribe_to_event is held as <<the characters up to and
\* including "//", the rest>>; str.startswith on it
startswith(url, prefix) == url[1] = prefix

\* base64.encodestring, as an injective encoding
base64_encodestring(x) == <<"base64", x>>

\* variant: the key is generated before the URL is looked at
subscribe_to_event_key_first(self, url, thing_types, draw, resp) ==
    LET keybytes == [len |-> 64, bytes |-> draw]
        notification_key == base64_encodestring(keybytes)
        info == [notification_key |-> notification_key, url |-> url, type_ids |-> thing_types]
        r == _build_and_send_request(self, "SubscribeToEvent", info, 1, TRUE, FALSE, FALSE, resp)
        sub_id == IF resp.subscription_id = Absent THEN None ELSE resp.subscription_id
        done == IF ~startswith(url, "https://")
                THEN Result(self, ValueError, NoCode, <<>>, <<>>, <<>>)
                ELSE IF r.exc # NoExc THEN r
                ELSE IF ~resp.info
                THEN Result(self, AttributeError, NoCode, <<>>, r.sent, r.recv)
                ELSE Result(self, NoExc, NoCode, <<sub_id, notification_key>>, r.sent, r.recv)
    IN  [done EXCEPT !.drawn = <<keybytes>>]

\* HealthVaultConn.subscribe_to_event; draw: the outcome of the random source
subscribe_to_event(self, url, thing_types, draw, resp) ==
    IF ~startswith(url, "https://")
    THEN Result(self, ValueError, NoCode, <<>>, <<>>, <<>>)
    ELSE LET keybytes == [len |-> 64, bytes |-> draw]     \* get_random_bytes(64): what the source yields
             notification_key == base64_encodestring(keybytes)
             info == [notification_key |-> notification_key, url |-> url, type_ids |-> thing_types]
             r == _build_and_send_request(self, "SubscribeToEvent", info, 1, TRUE, FALSE, FALSE, resp)
             sub_id == IF resp.subscription_id = Absent THEN None ELSE resp.subscription_id
             done == IF r.exc # NoExc THEN r
                     ELSE IF ~resp.info
                     THEN Result(self, AttributeError, NoCode, <<>>, r.sent, r.recv)
                     ELSE Result(self, NoExc, NoCode, <<sub_id, notification_key>>, r.sent, r.recv)
         IN  [done EXCEPT !.drawn = <<keybytes>>]

\* urllib.quote_plus, as an injective encoding
quote_plus(x) == <<"quote_plus", x>>

\* urllib.urlencode of a dict, given as its (key, value) pairs in the dict's
\* iteration order: the pairs with their values quoted
urlencode(query) == [i \in DOMAIN query |-> <<query[i][1], quote_plus(query[i][2])>>]

\* variant: the inner query string lacks the app id
authorization_url_without_appid(self, callback_url) ==
    LET targetqs == urlencode(<<<<"redirect", callback_url>>>>)
        url == [scheme |-> "https://", host |-> self.shell_server, path |-> "/redirect.aspx",
                query |-> urlencode(<<<<"targetqs", targetqs>>, <<"target", "APPAUTH">>>>)]
    IN  Result(self, NoExc, NoCode, <<url>>, <<>>, <<>>)

\* HealthVaultConn.authorization_url: "https://%s/redirect.aspx?%s"
authorization_url(self, callback_url) ==
    LET targetqs == urlencode(<<<<"redirect", callback_url>>, <<"appid", self.app_id>>>>)
        url == [scheme |-> "https://", host |-> self.shell_server, path |-> "/redirect.aspx",
                query |-> urlencode(<<<<"targetqs", targetqs>>, <<"target", "APPAUTH">>>>)]
    IN  Result(self, NoExc, NoCode, <<url>>, <<>>, <<>>)

\* ------------------------------------------------- the library's functions
\* How an application of a function ended: the exception raised (NoExc when
\* it returned) and the value returned.
Ok(v) == [exc |-> NoExc, val |-> v]
Raise(e) == [exc |-> e, val |-> <<>>]

\* a datetime.datetime value
datetime(year, month, day, hour, minute, second) ==
    [year |-> year, month |-> month, day |-> day, hour |-> hour, minute |-> minute, second |-> second]

\* a number as decimal digits, zero-padded to two / four places (%02d, %04d)
Pad2(n) == IF n < 10 THEN "0" \o ToString(n) ELSE ToString(n)
Pad4(n) ==
    IF n < 10 THEN "000" \o ToString(n)
    ELSE IF n < 100 THEN "00" \o ToString(n)
    ELSE IF n < 1000 THEN "0" \o ToString(n)
    ELSE ToString(n)

\* one item of a strftime format: a directive is replaced by its field, any
\* other text stands for itself
Directive(dt, d) ==
    CASE d = "%Y" -> Pad4(dt.year)
      [] d = "%m" -> Pad2(dt.month)
      [] d = "%d" -> Pad2(dt.day)
      [] d = "%H" -> Pad2(dt.hour)
      [] d = "%M" -> Pad2(dt.minute)
      [] d = "%S" -> Pad2(dt.second)
      [] OTHER -> d

\* datetime.strftime, the format given as the sequence of its items
RECURSIVE strftime(_, _)
strftime(dt, format) ==
    IF Len(format) = 0 THEN "" ELSE Directive(dt, Head(format)) \o strftime(dt, Tail(format))

\* healthvault.format_datetime: dt.strftime("%Y-%m-%dT%H:%m:%S")
format_datetime(dt) ==
    strftime(dt, <<"%Y", "-", "%m", "-", "%d", "T", "%H", ":", "%m", ":", "%S">>)

\* ------------------------------------------------------------------- XML
\* A Python value that may be None is held as a sequence of at most one
\* element: <<>> is None, <<v>> is the value v.  An ElementTree element is its
\* tag, its attributes (a set of <<name, value>>), its text (None when it has
\* none) and its child elements in document order.
Element(tag, attrib, text, children) ==
    [tag |-> tag, attrib |-> attrib, text |-> text, children |-> children]
Leaf(tag, text) == Element(tag, {}, <<text>>, <<>>)
Node(tag, children) == Element(tag, {}, <<>>, children)

\* A path is the sequence of its steps: a step is a tag, or the tag display
\* with the predicate [@units='lb'], the one predicate the library uses.
RECURSIVE Flatten(_)
Flatten(ss) == IF Len(ss) = 0 THEN <<>> ELSE Head(ss) \o Flatten(Tail(ss))

\* Element.findall(path) and Element.find(path)
RECURSIVE findall(_, _)
findall(elt, path) ==
    IF Len(path) = 0 THEN <<elt>>
    ELSE LET kids == SelectSeq(elt.children,
                               LAMBDA c : \/ c.tag = Head(path)
                                          \/ /\ Head(path) = "display[@units='lb']"
                                             /\ c.tag = "display" /\ <<"units", "lb">> \in c.attrib)
         IN  Flatten([i \in DOMAIN kids |-> findall(kids[i], Tail(path))])

find(elt, path) ==
    LET all == findall(elt, path) IN IF Len(all) = 0 THEN <<>> ELSE <<all[1]>>

\* Element.get(name)
get(elt, name) ==
    LET vs == {p \in elt.attrib : p[1] = name}
    IN  IF vs = {} THEN <<>> ELSE <<(CHOOSE p \in vs : TRUE)[2]>>

\* o.find(path) / o.findall(path) for a variable o that holds an element or
\* None; on None the caller raises AttributeError, which every function below
\* does when handed None
Find(o, path) == IF Len(o) = 0 THEN <<>> ELSE find(o[1], path)
Findall(o, path) == IF Len(o) = 0 THEN <<>> ELSE findall(o[1], path)

\* int(text) and float(text) for the decimal numerals 0..MaxNumber, the numbers
\* a response carries here being whole; any other text raises ValueError, None
\* raises TypeError
TypeError == "TypeError"
to_number(text) ==
    IF Len(text) = 0 THEN Raise(TypeError)
    ELSE IF ~(\E n \in 0..MaxNumber : ToString(n) = text[1]) THEN Raise(ValueError)
    ELSE Ok(CHOOSE n \in 0..MaxNumber : ToString(n) = text[1])

\* str.lower on the texts of boolean elements
lower(t) == CASE t = "True" -> "true" [] t = "TRUE" -> "true" [] OTHER -> t

\* The keyword arguments of dict(...) and the items of a list comprehension
\* are evaluated in order: the first one that raises ends the evaluation.
Failed(rs) == \E i \in DOMAIN rs : rs[i].exc # NoExc
FirstExc(rs) == rs[CHOOSE i \in DOMAIN rs : rs[i].exc # NoExc /\ \A j \in 1..(i - 1) : rs[j].exc = NoExc].exc

\* dict(k1=v1, ...): the dict as the record with fields keys[i] holding the
\* values of rs[i]
Dict(keys, rs) ==
    IF Failed(rs) THEN Raise(FirstExc(rs))
    ELSE Ok([k \in {keys[i] : i \in DOMAIN keys} |-> rs[CHOOSE i \in DOMAIN keys : keys[i] = k].val])

\* [parser(e) for e in o.findall(path)]; rs: the parser applied to each e
List(o, rs) ==
    IF Len(o) = 0 THEN Raise(AttributeError)
    ELSE IF Failed(rs) THEN Raise(FirstExc(rs))
    ELSE Ok([i \in DOMAIN rs |-> rs[i].val])

\* an optional value out of a result: r as it is when it raised, else Some of it
Some(r) == IF r.exc # NoExc THEN r ELSE Ok(<<r.val>>)

\* xmlutils.text_list
text_list(o, path) ==
    IF Len(o) = 0 THEN Raise(AttributeError)
    ELSE Ok([i \in DOMAIN findall(o[1], path) |-> findall(o[1], path)[i].text])

\* xmlutils.text_or_none
text_or_none(o, path) ==
    IF Len(o) = 0 THEN Raise(AttributeError)
    ELSE IF Len(find(o[1], path)) = 0 THEN Ok(<<>>)
    ELSE Ok(find(o[1], path)[1].text)

\* o.find(path).text, as parse_person and parse_email read a required element
required_text(o, path) ==
    IF Len(Find(o, path)) = 0 THEN Raise(AttributeError) ELSE Ok(Find(o, path)[1].text)

\* xmlutils.int_or_none: int(elt.text) if elt is not None else None
int_or_none(o, path) ==
    IF Len(o) = 0 THEN Raise(AttributeError)
    ELSE IF Len(find(o[1], path)) = 0 THEN Ok(<<>>)
    ELSE Some(to_number(find(o[1], path)[1].text))

\* xmlutils.float_or_none: float(elt.text) if elt is not None else None
float_or_none(o, path) ==
    IF Len(o) = 0 THEN Raise(AttributeError)
    ELSE IF Len(find(o[1], path)) = 0 THEN Ok(<<>>)
    ELSE Some(to_number(find(o[1], path)[1].text))

\* xmlutils.boolean_or_none
boolean_or_none(o, path) ==
    LET text == text_or_none(o, path)
    IN  IF text.exc # NoExc THEN text
        ELSE IF Len(text.val) = 0 \/ text.val = <<"">> THEN Ok(<<>>)
        ELSE Ok(<<lower(text.val[1]) = "true">>)

\* xmlutils.parse_optional_item; r: parser(o.find(path))
parse_optional_item(o, path, r) ==
    IF Len(o) = 0 THEN Raise(AttributeError)
    ELSE IF Len(find(o[1], path)) = 0 THEN Ok(<<>>)
    ELSE Some(r)

\* datetime.date accepts these fields
ValidDate(y, m, d) ==
    /\ y \in 1..9999 /\ m \in 1..12
    /\ d \in 1..(IF m = 2 THEN (IF y % 4 = 0 /\ (y % 100 # 0 \/ y % 400 = 0) THEN 29 ELSE 28)
                 ELSE IF m \in {4, 6, 9, 11} THEN 30 ELSE 31)

\* int(t) for the text of each element, "0" where the element is missing
Ints(elts) ==
    List(<<elts>>, [i \in DOMAIN elts |-> to_number(IF Len(elts[i]) = 0 THEN <<"0">> ELSE elts[i][1].text)])

\* xmlutils.when_to_datetime
when_to_datetime(when) ==
    LET ints == Ints(<<Find(when, <<"date", "y">>), Find(when, <<"date", "m">>), Find(when, <<"date", "d">>),
                       Find(when, <<"time", "h">>), Find(when, <<"time", "m">>), Find(when, <<"time", "s">>)>>)
    IN  IF Len(when) = 0 THEN Raise(AttributeError)
        ELSE IF ints.exc # NoExc THEN ints
        ELSE IF ~(ValidDate(ints.val[1], ints.val[2], ints.val[3]) /\ ints.val[4] \in 0..23 /\ ints.val[5] \in 0..59 /\ ints.val[6] \in 0..59)
        THEN Raise(ValueError)
        ELSE Ok(datetime(ints.val[1], ints.val[2], ints.val[3], ints.val[4], ints.val[5], ints.val[6]))

\* xmlutils.parse_approximate_date
parse_approximate_date(o) ==
    LET ints == Ints(<<Find(o, <<"y">>), Find(o, <<"m">>), Find(o, <<"d">>)>>)
    IN  IF Len(o) = 0 THEN Raise(AttributeError)
        ELSE IF ints.exc # NoExc THEN ints
        ELSE IF ~ValidDate(ints.val[1], ints.val[2], ints.val[3]) THEN Raise(ValueError)
        ELSE Ok([year |-> ints.val[1], month |-> ints.val[2], day |-> ints.val[3]])

\* xmlutils.parse_time; s and f: seconds or 0, int(f or 0) * 1000
parse_time(o) ==
    LET rs == <<int_or_none(o, <<"h">>), int_or_none(o, <<"m">>), int_or_none(o, <<"s">>), int_or_none(o, <<"f">>)>>
        s == IF Len(rs[3].val) = 0 THEN 0 ELSE rs[3].val[1]
        f == IF Len(rs[4].val) = 0 THEN 0 ELSE rs[4].val[1]
    IN  IF Failed(rs) THEN Raise(FirstExc(rs))
        ELSE IF Len(rs[1].val) = 0 \/ Len(rs[2].val) = 0 THEN Raise(TypeError)
        ELSE IF ~(rs[1].val[1] \in 0..23 /\ rs[2].val[1] \in 0..59 /\ s \in 0..59 /\ 1000 * f \in 0..999999)
        THEN Raise(ValueError)
        ELSE Ok([hour |-> rs[1].val[1], minute |-> rs[2].val[1], second |-> s, microsecond |-> 1000 * f])

\* xmlutils.parse_coded_value
parse_coded_value(o) ==
    Dict(<<"value", "family", "type", "version">>,
         <<text_or_none(o, <<"value">>), text_list(o, <<"family">>), text_or_none(o, <<"type">>),
           text_list(o, <<"version">>)>>)

\* variant: a codable value that is not there parses to an empty one
parse_codable_value_tolerant(o) ==
    IF Len(o) = 0 THEN Ok([text |-> <<>>, code |-> <<>>])
    ELSE Dict(<<"text", "code">>,
              <<text_or_none(o, <<"text">>),
                List(o, [i \in DOMAIN Findall(o, <<"code">>) |-> parse_coded_value(<<Findall(o, <<"code">>)[i]>>)])>>)

\* xmlutils.parse_codable_value
parse_codable_value(o) ==
    Dict(<<"text", "code">>,
         <<text_or_none(o, <<"text">>),
           List(o, [i \in DOMAIN Findall(o, <<"code">>) |-> parse_coded_value(<<Findall(o, <<"code">>)[i]>>)])>>)

\* xmlutils.parse_address
parse_address(o) ==
    Dict(<<"description", "is_primary", "street", "city", "state", "postcode", "country">>,
         <<text_or_none(o, <<"description">>), boolean_or_none(o, <<"is-primary">>),
           text_list(o, <<"street">>), text_or_none(o, <<"city">>), text_or_none(o, <<"state">>),
           text_or_none(o, <<"postcode">>), text_or_none(o, <<"country">>)>>)

\* xmlutils.parse_phone
parse_phone(o) ==
    Dict(<<"description", "is_primary", "number">>,
         <<text_or_none(o, <<"description">>), boolean_or_none(o, <<"is-primary">>),
           text_list(o, <<"number">>)>>)

\* xmlutils.parse_email
parse_email(o) ==
    Dict(<<"description", "is_primary", "address">>,
         <<text_or_none(o, <<"description">>), boolean_or_none(o, <<"is-primary">>),
           required_text(o, <<"address">>)>>)

\* xmlutils.parse_contact
parse_contact(o) ==
    Dict(<<"address", "phone", "email">>,
         <<List(o, [i \in DOMAIN Findall(o, <<"address">>) |-> parse_address(<<Findall(o, <<"address">>)[i]>>)]),
           List(o, [i \in DOMAIN Findall(o, <<"phone">>) |-> parse_phone(<<Findall(o, <<"phone">>)[i]>>)]),
           List(o, [i \in DOMAIN Findall(o, <<"email">>) |-> parse_email(<<Findall(o, <<"email">>)[i]>>)])>>)

\* xmlutils.parse_person
parse_person(o) ==
    Dict(<<"name", "organization", "professional_training", "id", "contact", "type">>,
         <<required_text(o, <<"name">>), text_or_none(o, <<"organization">>),
           text_or_none(o, <<"professional-training">>), text_or_none(o, <<"id">>),
           parse_optional_item(o, <<"contact">>, parse_contact(Find(o, <<"contact">>))),
           parse_optional_item(o, <<"type">>, parse_codable_value(Find(o, <<"type">>)))>>)

\* xmlutils.parse_device
parse_device(o) ==
    Dict(<<"when", "device_name", "vendor", "model", "serial_number", "description">>,
         <<when_to_datetime(Find(o, <<"when">>)), text_or_none(o, <<"device-name">>),
           parse_optional_item(o, <<"vendor">>, parse_person(Find(o, <<"vendor">>))),
           text_or_none(o, <<"model">>), text_or_none(o, <<"serial-number">>),
           text_or_none(o, <<"description">>)>>)

\* xmlutils.parse_weight
parse_weight(o) ==
    Dict(<<"when", "kg", "lbs">>,
         <<when_to_datetime(Find(o, <<"when">>)), float_or_none(o, <<"value", "kg">>),
           float_or_none(o, <<"value", "display[@units='lb']">>)>>)

\* xmlutils.parse_positive_double
parse_positive_double(o) ==
    IF Len(o) = 0 THEN Raise(AttributeError) ELSE to_number(o[1].text)

\* xmlutils.parse_display_value
parse_display_value(o) ==
    IF Len(o) = 0 THEN Raise(AttributeError)
    ELSE Ok([text |-> get(o[1], "text"), units |-> get(o[1], "units"),
             units_code |-> get(o[1], "units-code"), display |-> o[1].text])

\* xmlutils.parse_length_value
parse_length_value(o) ==
    Dict(<<"m", "display">>,
         <<parse_positive_double(Find(o, <<"m">>)),
           parse_optional_item(o, <<"display">>, parse_display_value(Find(o, <<"display">>)))>>)

\* xmlutils.parse_structured_measurement
parse_structured_measurement(o) ==
    Dict(<<"value", "units">>,
         <<float_or_none(o, <<"value">>),
           parse_optional_item(o, <<"units">>, parse_codable_value(Find(o, <<"units">>)))>>)

\* xmlutils.parse_structured_name_value
parse_structured_name_value(o) ==
    Dict(<<"name", "value">>,
         <<parse_coded_value(Find(o, <<"name">>)), parse_structured_measurement(Find(o, <<"value">>))>>)

\* xmlutils.parse_exercise_segment
parse_exercise_segment(o) ==
    Dict(<<"activity", "title", "distance", "duration", "offset", "detail">>,
         <<parse_codable_value(Find(o, <<"activity">>)), text_or_none(o, <<"title">>),
           parse_optional_item(o, <<"distance">>, parse_length_value(Find(o, <<"distance">>))),
           float_or_none(o, <<"duration">>), float_or_none(o, <<"offset">>),
           List(o, [i \in DOMAIN Findall(o, <<"detail">>) |-> parse_structured_name_value(<<Findall(o, <<"detail">>)[i]>>)])>>)

\* xmlutils.parse_structured_approximate_date
parse_structured_approximate_date(o) ==
    Dict(<<"date", "time", "tz">>,
         <<parse_approximate_date(Find(o, <<"date">>)),
           parse_optional_item(o, <<"time">>, parse_time(Find(o, <<"time">>))),
           parse_optional_item(o, <<"tz">>, parse_codable_value(Find(o, <<"tz">>)))>>)

\* xmlutils.parse_structured_approximate_date_time
parse_structured_approximate_date_time(o) ==
    Dict(<<"structured", "descriptive">>,
         <<parse_structured_approximate_date(Find(o, <<"structured">>)), text_or_none(o, <<"descriptive">>)>>)

\* xmlutils.parse_exercise
parse_exercise(o) ==
    Dict(<<"when", "activity", "title", "distance", "duration", "detail", "segment">>,
         <<parse_structured_approximate_date_time(Find(o, <<"when">>)),
           parse_codable_value(Find(o, <<"activity">>)), text_or_none(o, <<"title">>),
           parse_optional_item(o, <<"distance">>, parse_length_value(Find(o, <<"distance">>))),
           parse_optional_item(o, <<"duration">>, parse_positive_double(Find(o, <<"duration">>))),
           List(o, [i \in DOMAIN Findall(o, <<"detail">>) |-> parse_structured_name_value(<<Findall(o, <<"detail">>)[i]>>)]),
           List(o, [i \in DOMAIN Findall(o, <<"segment">>) |-> parse_exercise_segment(<<Findall(o, <<"segment">>)[i]>>)])>>)

\* xmlutils.parse_height
parse_height(o) ==
    Dict(<<"when", "value">>,
         <<when_to_datetime(Find(o, <<"when">>)), parse_length_value(Find(o, <<"value">>))>>)

\* xmlutils.parse_awakening
parse_awakening(o) ==
    Dict(<<"when", "minutes">>, <<parse_time(Find(o, <<"when">>)), int_or_none(o, <<"minutes">>)>>)

\* xmlutils.parse_sleep_session
parse_sleep_session(o) ==
    Dict(<<"when", "bed_time", "wake_time", "sleep_minutes", "settling_minutes", "awakening", "medications">>,
         <<when_to_datetime(Find(o, <<"when">>)), parse_time(Find(o, <<"bed-time">>)),
           parse_time(Find(o, <<"wake-time">>)), int_or_none(o, <<"sleep-minutes">>),
           int_or_none(o, <<"setting-minutes">>),
           List(o, [i \in DOMAIN Findall(o, <<"awakening">>) |-> parse_awakening(<<Findall(o, <<"awakening">>)[i]>>)]),
           List(o, [i \in DOMAIN Findall(o, <<"medications">>) |-> parse_codable_value(<<Findall(o, <<"medications">>)[i]>>)])>>)

\* xmlutils.parse_blood_glucose_value
parse_blood_glucose_value(o) ==
    Dict(<<"mmolperl", "display">>,
         <<parse_positive_double(Find(o, <<"mmolPerL">>)),
           parse_optional_item(o, <<"display">>, parse_display_value(Find(o, <<"display">>)))>>)

\* xmlutils.parse_blood_glucose
parse_blood_glucose(o) ==
    Dict(<<"when", "value", "glucose_measurement_type", "outside_operating_temperature",
           "is_control_test", "normalcy", "measurement_context">>,
         <<when_to_datetime(Find(o, <<"when">>)), parse_blood_glucose_value(Find(o, <<"value">>)),
           parse_codable_value(Find(o, <<"glucose-measurement-type">>)),
           boolean_or_none(o, <<"outside-operating_temp">>),
           boolean_or_none(o, <<"is-control-test">>), int_or_none(o, <<"normalcy">>),
           parse_optional_item(o, <<"measurement-context">>, parse_codable_value(Find(o, <<"measurement-context">>)))>>)

\* HealthVaultConn.get_basic_demographic_info, from the basic element on
parse_basic(basic) ==
    Dict(<<"gender", "birthyear", "country_text", "country_code", "postcode", "state">>,
         <<text_or_none(basic, <<"gender">>), int_or_none(basic, <<"birthyear">>),
           text_or_none(basic, <<"country", "text">>), text_or_none(basic, <<"country", "code", "value">>),
           text_or_none(basic, <<"postcode">>), text_or_none(basic, <<"state", "text">>)>>)

\* HealthVaultConn.get_blood_pressure_measurements, for one blood-pressure element
parse_blood_pressure(thing) ==
    Dict(<<"when", "systolic", "diastolic", "pulse", "irregular_heartbeat">>,
         <<when_to_datetime(Find(thing, <<"when">>)), int_or_none(thing, <<"systolic">>),
           int_or_none(thing, <<"diastolic">>), int_or_none(thing, <<"pulse">>),
           boolean_or_none(thing, <<"irregular-heartbeat">>)>>)

\* healthvaultlib/datatypes.py: the value of the expression DataType.<name>;
\* the class has the seven lower-case attributes and no other
DataType(name) ==
    CASE name = "basic_demographic_data" -> Ok("3b3e6b16-eb69-483c-8d7e-dfe116ae6092")
      [] name = "blood_pressure_measurements" -> Ok("ca3c57f4-f4c1-4e15-be67-0a3caf5414ed")
      [] name = "devices" -> Ok("ef9cf8d5-6c0b-4292-997f-4047240bc7be")
      [] name = "exercise" -> Ok("85a21ddb-db20-4c65-8d30-33c899ccf612")
      [] name = "height_measurements" -> Ok("40750a6a-89b2-455c-bd8d-b420a4cb500b")
      [] name = "sleep_sessions" -> Ok("11c52484-7f1a-11db-aeac-87d355d89593")
      [] name = "weight_measurements" -> Ok("3d34d87e-7fc1-4153-800f-f56592cb0d17")
      [] OTHER -> Raise(AttributeError)

\* xmlutils.parse_group: the if/elif chain compares data_type with
\* DataType.<NAME> for each name in turn; a comparison whose attribute lookup
\* raises ends the call, the first one that is equal selects the payload
parse_group(group) ==
    LET names == <<"BASIC_DEMOGRAPHIC_DATA", "BLOOD_GLUCOSE_MEASUREMENT", "BLOOD_PRESSURE_MEASUREMENTS",
                   "DEVICES", "EXERCISE", "HEIGHT_MEASUREMENTS", "SLEEP_SESSIONS", "WEIGHT_MEASUREMENTS">>
        type_id == Find(group, <<"thing", "type-id">>)
        Decides(i) == DataType(names[i]).exc # NoExc \/ <<DataType(names[i]).val>> = type_id[1].text
        i == CHOOSE i \in DOMAIN names : Decides(i) /\ \A j \in 1..(i - 1) : ~Decides(j)
        things(tag) == Findall(group, <<"thing", "data-xml", tag>>)
    IN  IF Len(group) = 0 THEN Raise(AttributeError)
        ELSE IF Len(Findall(group, <<"thing">>)) = 0 THEN Ok(<<>>)
        ELSE IF Len(type_id) = 0 THEN Raise(AttributeError)
        ELSE IF ~\E k \in DOMAIN names : Decides(k) THEN Raise(HealthVaultException)
        ELSE IF DataType(names[i]).exc # NoExc THEN Raise(DataType(names[i]).exc)
        ELSE CASE i = 1 -> parse_basic(Find(group, <<"thing", "data-xml", "basic">>))
               [] i = 2 -> List(group, [k \in DOMAIN things("blood-glucose") |->
                                           parse_blood_glucose(<<things("blood-glucose")[k]>>)])
               [] i = 3 -> List(group, [k \in DOMAIN things("blood-pressure") |->
                                           parse_blood_pressure(<<things("blood-pressure")[k]>>)])
               [] i = 4 -> List(group, [k \in DOMAIN things("device") |-> parse_device(<<things("device")[k]>>)])
               [] i = 5 -> List(group, [k \in DOMAIN things("exercise") |-> parse_exercise(<<things("exercise")[k]>>)])
               [] i = 6 -> List(group, [k \in DOMAIN things("height") |-> parse_height(<<things("height")[k]>>)])
               [] i = 7 -> List(group, [k \in DOMAIN things("sleep-am") |->
                                           parse_sleep_session(<<things("sleep-am")[k]>>)])
               [] i = 8 -> List(group, [k \in DOMAIN things("weight") |-> parse_weight(<<things("weight")[k]>>)])

\* hvcrypto.HVCrypto.__init__: self.em, the length in bytes of the modulus
em == (rsa_n_bit_length + 7) \div 8

\* hvcrypto.HVCrypto.pad_rsa; a byte string is the sequence of its bytes
pad_rsa(hashed_msg) ==
    LET prefix == <<48, 33, 48, 9, 6, 5, 43, 14, 3, 2, 26, 5, 0, 4, 20>>
        padlen == em - Len(prefix) - Len(hashed_msg) - 3
        padding == [x \in 1..padlen |-> 255]
    IN  Ok(<<0, 1>> \o padding \o <<0>> \o prefix \o hashed_msg)

\* ----------------------------------------------------------------- actions
\* the arguments of a call, as recorded in last
Args(wct, method, use_record_id, use_target_person_id, use_wctoken) ==
    [wctoken |-> wct, method |-> method, use_record_id |-> use_record_id,
     use_target_person_id |-> use_target_person_id, use_wctoken |-> use_wctoken,
     public_key_long |-> TRUE, private_key_long |-> TRUE,
     method_version |-> 1, info |-> None, url |-> <<>>, thing_types |-> <<>>,
     callback_url |-> None]

NoArgs == Args(None, None, FALSE, FALSE, FALSE)

\* no function has been applied
NoCall == [fn |-> "none", arg |-> <<>>, done |-> FALSE, exc |-> NoExc, ret |-> <<>>]

\* the state after a call that ended as r
Finish(op, args, r, ph) ==
    /\ phase' = ph
    /\ wctoken' = r.self.wctoken
    /\ record_id' = r.self.record_id
    /\ person_id' = r.self.person_id
    /\ authorized' = r.self.authorized
    /\ auth_token' = r.self.auth_token
    /\ sharedsec' = r.self.sharedsec
    /\ app_id' = r.self.app_id
    /\ shell_server' = r.self.shell_server
    /\ sent' = r.sent
    /\ last' = [op |-> op, args |-> args, before |-> Self, exc |-> r.exc, code |-> r.code,
                recv |-> r.recv, ret |-> r.ret, drawn |-> r.drawn]
    /\ UNCHANGED call

ConnInit ==
    /\ phase = "unbuilt"
    /\ wctoken = Unset
    /\ record_id = Unset
    /\ person_id = Unset
    /\ authorized = FALSE
    /\ auth_token = Unset
    /\ sharedsec = Unset
    /\ app_id = Unset
    /\ shell_server = Unset
    /\ sent = <<>>
    /\ last = [op |-> "none", args |-> NoArgs, before |-> Self, exc |-> NoExc, code |-> NoCode,
               recv |-> <<>>, ret |-> <<>>, drawn |-> <<>>]

Init ==
    /\ ConnInit
    /\ call = NoCall

\* c = HealthVaultConn(...): a behaviour is the life of one connection object
Construct ==
    /\ phase = "unbuilt"
    /\ \E pub \in BOOLEAN, priv \in BOOLEAN, wct \in Tokens \cup {None}, sec \in SharedSecs,
       resp1 \in AuthResponses, resp2 \in PersonResponses :
        LET r == __init__(pub, priv, wct, sec, resp1, resp2)
            args == [Args(wct, None, FALSE, FALSE, FALSE) EXCEPT !.public_key_long = pub, !.private_key_long = priv]
        IN  Finish("__init__", args, r, IF r.exc = NoExc THEN "ready" ELSE "failed")

\* c.connect(wctoken)
Connect ==
    /\ phase = "ready"
    /\ \E wct \in Tokens, resp \in PersonResponses :
        Finish("connect", Args(wct, "GetPersonInfo", FALSE, FALSE, TRUE), connect(Self, wct, resp), phase)

\* c.get_things(hv_datatype) and the typed getters built on it
GetThings ==
    /\ phase = "ready"
    /\ \E t \in DataTypes, resp \in OtherResponses :
        Finish("get_things", Args(None, "GetThings", TRUE, FALSE, TRUE), get_things(Self, t, resp), phase)

\* c.associate_alternate_id(idstring), c.disassociate_alternate_id(idstring)
AlternateId ==
    /\ phase = "ready"
    /\ \E m \in {"AssociateAlternateId", "DisassociateAlternateId"}, resp \in OtherResponses :
        Finish("alternate_id", Args(None, m, TRUE, FALSE, TRUE), alternate_id(Self, m, "id", resp), phase)

\* c.unsubscribe_to_event(sub_id)
UnsubscribeToEvent ==
    /\ phase = "ready"
    /\ \E resp \in OtherResponses :
        Finish("unsubscribe_to_event", Args(None, "UnsubscribeToEvent", TRUE, FALSE, FALSE),
               unsubscribe_to_event(Self, "sub", resp), phase)

\* the typed getters: c.get_height_measurements(), c.get_weight_measurements(), ...
GetMeasurements ==
    /\ phase = "ready"
    /\ \E t \in DataTypes, resp \in FewResponses :
        Finish("get_measurements", Args(None, "GetThings", TRUE, FALSE, TRUE), get_measurements(Self, t, resp), phase)

\* c.get_blood_glucose_measurements()
GetBloodGlucoseMeasurements ==
    /\ phase = "ready"
    /\ \E resp \in {InfoResponse(Absent)} :
        Finish("get_blood_glucose_measurements", Args(None, "GetThings", TRUE, FALSE, TRUE),
               get_blood_glucose_measurements(Self, resp), phase)

\* c.get_alternate_ids()
GetAlternateIds ==
    /\ phase = "ready"
    /\ \E resp \in FewResponses :
        Finish("get_alternate_ids", Args(None, "GetAlternateIds", TRUE, FALSE, TRUE),
               get_alternate_ids(Self, resp), phase)

\* c.get_event_subscriptions()
GetEventSubscriptions ==
    /\ phase = "ready"
    /\ \E resp \in FewResponses :
        Finish("get_event_subscriptions", Args(None, "GetEventSubscriptions", TRUE, FALSE, FALSE),
               get_event_subscriptions(Self, resp), phase)

\* c.subscribe_to_event(url, thing_types), the url given as its scheme and
\* the rest, the thing types none or two different ones, draw the outcome of
\* the random draw of the notification key
SubscribeToEvent ==
    /\ phase = "ready"
    /\ \E url \in {<<"https://", "our.server/notify">>, <<"http://", "our.server/notify">>},
          thing_types \in {<<>>} \cup {p \in DataTypes \X DataTypes : p[1] # p[2]},
          draw \in 1..MaxKey, resp \in SubscribeResponses :
        Finish("subscribe_to_event",
               [Args(None, "SubscribeToEvent", TRUE, FALSE, FALSE) EXCEPT !.url = url, !.thing_types = thing_types],
               subscribe_to_event(Self, url, thing_types, draw, resp), phase)

\* c.authorization_url(callback_url)
AuthorizationUrl ==
    /\ phase = "ready"
    /\ \E callback_url \in {"http://ourown.server.com/with/some/parts/", "https://ourown.server.com/"} :
        Finish("authorization_url", [NoArgs EXCEPT !.callback_url = callback_url],
               authorization_url(Self, callback_url), phase)

\* the info fragments handed to _build_and_send_request
Fragments == {"<info>BOO</info>", "<info/>"}

\* c._build_and_send_request(method_name, info, ...) called with any flags
BuildAndSendRequest ==
    /\ phase = "ready"
    /\ \E urid \in BOOLEAN, utpid \in BOOLEAN, uwct \in BOOLEAN, resp \in FewResponses,
          info \in Fragments, version \in {1, 2} :
        Finish("_build_and_send_request",
               [Args(None, "METHOD", urid, utpid, uwct) EXCEPT !.info = info, !.method_version = version],
               _build_and_send_request(Self, "METHOD", info, version, urid, utpid, uwct, resp), phase)

\* c._send_request(payload)
SendRequest ==
    /\ phase = "ready"
    /\ \E resp \in OtherResponses :
        Finish("_send_request", Args(None, "PAYLOAD", FALSE, FALSE, FALSE),
               _send_request(Self, Payload(<<"PAYLOAD">>, "PAYLOAD", 1, Absent, Absent, Absent, Absent,
                                           "PAYLOAD", NoDigest, NoDigest, Absent), resp),
               phase)

Next ==
    \/ Construct
    \/ Connect
    \/ GetThings
    \/ AlternateId
    \/ UnsubscribeToEvent
    \/ GetMeasurements
    \/ GetBloodGlucoseMeasurements
    \/ GetAlternateIds
    \/ GetEventSubscriptions
    \/ SubscribeToEvent
    \/ AuthorizationUrl
    \/ BuildAndSendRequest
    \/ SendRequest

Spec == Init /\ [][Next]_vars

\* ------------------------------------- applications of the library's functions
\* A behaviour applies one function to one argument: call holds the function
\* and the argument from the start, and how the application ended once it is
\* done.
Pending(fn, arg) == [fn |-> fn, arg |-> arg, done |-> FALSE, exc |-> NoExc, ret |-> <<>>]

\* the state after the pending fn(call.arg) ended as r
Apply(fn, r) ==
    /\ call.fn = fn /\ ~call.done
    /\ call' = [call EXCEPT !.done = TRUE, !.exc = r.exc, !.ret = r.val]
    /\ UNCHANGED <<phase, wctoken, record_id, person_id, authorized, auth_token, sharedsec,
                   app_id, shell_server, sent, last>>

\* _get_exception_class_for(code)
Classify ==
    Apply("_get_exception_class_for", Ok(_get_exception_class_for(call.arg)))

\* format_datetime(dt)
FormatDatetime ==
    Apply("format_datetime", Ok(format_datetime(call.arg)))

\* ------------------------------------------------ the things of a response
\* The data-xml elements handed to the parsers are written from the Python
\* values they stand for, laid out as the platform's responses in
\* tests/test_conn.py are.

\* <when><date>..</date><time>..</time></when> of a datetime
when_elt(dt) ==
    Node("when", <<Node("date", <<Leaf("y", ToString(dt.year)), Leaf("m", ToString(dt.month)),
                                  Leaf("d", ToString(dt.day))>>),
                   Node("time", <<Leaf("h", ToString(dt.hour)), Leaf("m", ToString(dt.minute)),
                                  Leaf("s", ToString(dt.second)), Leaf("f", "0")>>)>>)

\* <h/><m/><s/><f/> of a time
time_elt(tag, t) ==
    Node(tag, <<Leaf("h", ToString(t.hour)), Leaf("m", ToString(t.minute)), Leaf("s", ToString(t.second)),
                Leaf("f", ToString(t.microsecond \div 1000))>>)

coded_elt(tag, c) ==
    Node(tag, <<Leaf("value", c.value[1])>> \o [i \in DOMAIN c.family |-> Leaf("family", c.family[i][1])]
              \o <<Leaf("type", c.type[1])>> \o [i \in DOMAIN c.version |-> Leaf("version", c.version[i][1])])

codable_elt(tag, c) ==
    Node(tag, <<Leaf("text", c.text[1])>> \o [i \in DOMAIN c.code |-> coded_elt("code", c.code[i])])

display_elt(dv) ==
    Element("display", {<<"text", dv.text[1]>>, <<"units", dv.units[1]>>, <<"units-code", dv.units_code[1]>>},
            dv.display, <<>>)

length_elt(tag, l) == Node(tag, <<Leaf("m", ToString(l.m)), display_elt(l.display[1])>>)

detail_elt(d) ==
    Node("detail", <<coded_elt("name", d.name),
                     Node("value", <<Leaf("value", ToString(d.value.value[1])),
                                     codable_elt("units", d.value.units[1])>>)>>)

\* the values the elements are written from
Codable(text, value, family, type, version) ==
    [text |-> <<text>>,
     code |-> <<[value |-> <<value>>, family |-> <<<<family>>>>, type |-> <<type>>, version |-> <<<<version>>>>]>>]
Display(text, units, units_code, display) ==
    [text |-> <<text>>, units |-> <<units>>, units_code |-> <<units_code>>, display |-> <<ToString(display)>>]
Time(h, m) == [hour |-> h, minute |-> m, second |-> 0, microsecond |-> 0]
Whens == {datetime(2012, 11, 12, 11, 24, 0), datetime(2005, 1, 1, 6, 0, 0)}

\* elt without the descendants at the paths: the document in which find and
\* findall find nothing there
RECURSIVE Without(_, _)
Without(elt, paths) ==
    LET kept == SelectSeq(elt.children, LAMBDA c : <<c.tag>> \notin paths)
    IN  [elt EXCEPT !.children =
            [i \in DOMAIN kept |->
                Without(kept[i], {Tail(q) : q \in {q \in paths : Len(q) > 1 /\ q[1] = kept[i].tag}})]]

\* what a parser is handed: the element, the value it stands for, whether
\* every optional field of the type is populated in it, and the paths of the
\* sub-elements that are absent from it
Thing(elt, data, populated, absent) ==
    [elt |-> elt, data |-> data, populated |-> populated, absent |-> absent]

\* basic demographic information
BasicData ==
    {[gender |-> <<g>>, birthyear |-> <<y>>, country_text |-> <<"United States">>,
      country_code |-> <<"US">>, postcode |-> <<"27510">>, state |-> <<"NC">>] :
        g \in {"m", "f"}, y \in {1963, 2000}}
basic_elt(d) ==
    Node("basic", <<Leaf("gender", d.gender[1]), Leaf("birthyear", ToString(d.birthyear[1])),
                    Node("country", <<Leaf("text", d.country_text[1]),
                                      Node("code", <<Leaf("value", d.country_code[1]), Leaf("family", "iso"),
                                                     Leaf("type", "iso3166")>>)>>),
                    Leaf("postcode", d.postcode[1]), Node("state", <<Leaf("text", d.state[1])>>)>>)

\* blood pressure measurements
BloodPressureData ==
    {[when |-> w, systolic |-> <<s>>, diastolic |-> <<80>>, pulse |-> <<16>>, irregular_heartbeat |-> <<b>>] :
        w \in Whens, s \in {120, 160}, b \in BOOLEAN}
blood_pressure_elt(d) ==
    Node("blood-pressure", <<when_elt(d.when), Leaf("systolic", ToString(d.systolic[1])),
                             Leaf("diastolic", ToString(d.diastolic[1])), Leaf("pulse", ToString(d.pulse[1])),
                             Leaf("irregular-heartbeat", (IF d.irregular_heartbeat[1] THEN "true" ELSE "false"))>>)

\* blood glucose measurements
BloodGlucoseData ==
    {[when |-> w,
      value |-> [mmolperl |-> 7, display |-> <<Display("7 mmol/L", "mmolPerL", "mmol-per-l", 7)>>],
      glucose_measurement_type |-> Codable("Whole blood", "wb", "wc", "glucose-measurement-type", "1"),
      outside_operating_temperature |-> <<t>>, is_control_test |-> <<c>>, normalcy |-> <<1>>,
      measurement_context |-> <<Codable("Before meal", "BeforeMeal", "wc", "glucose-measurement-context", "1")>>] :
        w \in Whens, t \in BOOLEAN, c \in BOOLEAN}
blood_glucose_elt(d) ==
    Node("blood-glucose", <<when_elt(d.when),
                            Node("value", <<Leaf("mmolPerL", ToString(d.value.mmolperl)), display_elt(d.value.display[1])>>),
                            codable_elt("glucose-measurement-type", d.glucose_measurement_type),
                            Leaf("outside-operating-temp", (IF d.outside_operating_temperature[1] THEN "true" ELSE "false")),
                            Leaf("is-control-test", (IF d.is_control_test[1] THEN "true" ELSE "false")),
                            Leaf("normalcy", ToString(d.normalcy[1])),
                            codable_elt("measurement-context", d.measurement_context[1])>>)

\* devices: the vendor of the device, a person with a structured name, one
\* address, one phone and one email
DeviceData ==
    {[when |-> w, device_name |-> <<"Digital Peak Flow Meter">>, vendor |-> <<[name |-> <<"Mark Boyce">>, organization |-> <<"Microlife">>,
                      professional_training |-> <<"A2Z Testing">>, id |-> <<"3456789">>,
                      contact |-> <<[address |-> <<[description |-> <<"12345 Apt#234">>, is_primary |-> <<TRUE>>,
                                                    street |-> <<<<"NE 34th St">>>>, city |-> <<"Redmond">>,
                                                    state |-> <<"WA">>, postcode |-> <<"98052">>, country |-> <<"US">>]>>,
                                     phone |-> <<[description |-> <<"Office">>, is_primary |-> <<TRUE>>,
                                                  number |-> <<<<"2069053456">>>>]>>,
                                     email |-> <<[description |-> <<"Office">>, is_primary |-> <<TRUE>>,
                                                  address |-> <<"markbo@live.com">>]>>]>>,
                      type |-> <<Codable("Provider", "2", "wc", "person-types", "1")>>]>>,
      model |-> <<m>>, serial_number |-> <<"23456543">>,
      description |-> <<"Mark Boyce got a Peak flow meter">>] :
        w \in Whens, m \in {"PF100", "PF200"}}
device_elt(d) ==
    Node("device", <<when_elt(d.when), Leaf("device-name", d.device_name[1]),
                     Node("vendor",
                     <<Node("name", <<Leaf("full", "Mark Boyce"), Leaf("first", "Mark"), Leaf("last", "Boyce")>>),
                       Leaf("organization", "Microlife"), Leaf("professional-training", "A2Z Testing"),
                       Leaf("id", "3456789"),
                       Node("contact",
                            <<Node("address", <<Leaf("description", "12345 Apt#234"), Leaf("is-primary", "true"),
                                                Leaf("street", "NE 34th St"), Leaf("city", "Redmond"), Leaf("state", "WA"),
                                                Leaf("postcode", "98052"), Leaf("country", "US")>>),
                              Node("phone", <<Leaf("description", "Office"), Leaf("is-primary", "true"),
                                              Leaf("number", "2069053456")>>),
                              Node("email", <<Leaf("description", "Office"), Leaf("is-primary", "true"),
                                              Leaf("address", "markbo@live.com")>>)>>),
                       codable_elt("type", d.vendor[1].type[1])>>),
                     Leaf("model", d.model[1]), Leaf("serial-number", d.serial_number[1]),
                     Leaf("anatomic-site", "Lungs"), Leaf("description", d.description[1])>>)

\* exercise; a when is either structured or descriptive, so a populated one
\* is structured and has no descriptive text
Detail ==
    [name |-> Codable("Steps_count", "Steps_count", "wc", "exercise-detail-names", "1").code[1],
     value |-> [value |-> <<1500>>, units |-> <<Codable("Count", "Count", "wc", "exercise-units", "1")>>]]
ExerciseData ==
    {[when |-> [structured |-> [date |-> [year |-> w.year, month |-> w.month, day |-> w.day],
                                time |-> <<Time(w.hour, w.minute)>>,
                                tz |-> <<Codable("Eastern", "EST", "wc", "time-zones", "1")>>],
                descriptive |-> <<>>],
      activity |-> Codable("Jumping to conclusions", "jump", "wc", "exercise-activities", "1"),
      title |-> <<"Did something">>,
      distance |-> <<[m |-> m, display |-> <<Display("1 mi", "mi", "mi", 1)>>]>>,
      duration |-> <<10>>, detail |-> <<Detail>>,
      segment |-> <<[activity |-> Codable("Jumping to conclusions", "jump", "wc", "exercise-activities", "1"),
                     title |-> <<"First lap">>,
                     distance |-> <<[m |-> 800, display |-> <<Display("1 mi", "mi", "mi", 1)>>]>>,
                     duration |-> <<5>>, offset |-> <<0>>, detail |-> <<Detail>>]>>] :
        w \in Whens, m \in {805, 1609}}
segment_elt(s) ==
    Node("segment", <<codable_elt("activity", s.activity), Leaf("title", s.title[1]),
                      length_elt("distance", s.distance[1]), Leaf("duration", ToString(s.duration[1])),
                      Leaf("offset", ToString(s.offset[1]))>>
                    \o [i \in DOMAIN s.detail |-> detail_elt(s.detail[i])])
exercise_elt(d) ==
    Node("exercise",
         <<Node("when", <<Node("structured",
                               <<Node("date", <<Leaf("y", ToString(d.when.structured.date.year)),
                                                Leaf("m", ToString(d.when.structured.date.month)),
                                                Leaf("d", ToString(d.when.structured.date.day))>>),
                                 time_elt("time", d.when.structured.time[1]),
                                 codable_elt("tz", d.when.structured.tz[1])>>)>>),
           codable_elt("activity", d.activity), Leaf("title", d.title[1]),
           length_elt("distance", d.distance[1]), Leaf("duration", ToString(d.duration[1]))>>
         \o [i \in DOMAIN d.detail |-> detail_elt(d.detail[i])]
         \o [i \in DOMAIN d.segment |-> segment_elt(d.segment[i])])

\* height measurements
HeightData ==
    {[when |-> w, value |-> [m |-> m, display |-> <<Display("3 ft 11.5 in", "in", "in", 47)>>]] :
        w \in Whens, m \in {1, 2}}
height_elt(d) == Node("height", <<when_elt(d.when), length_elt("value", d.value)>>)

\* sleep sessions
SleepSessionData ==
    {[when |-> w, bed_time |-> Time(0, 0), wake_time |-> Time(7, 0), sleep_minutes |-> <<420>>,
      settling_minutes |-> <<s>>, awakening |-> <<[when |-> Time(0, 10), minutes |-> <<10>>]>>,
      medications |-> <<Codable("Benzaclin", "ccabbac8", "Mayo", "Medications", "2")>>] :
        w \in Whens, s \in {15, 30}}
sleep_session_elt(d) ==
    Node("sleep-am", <<when_elt(d.when), time_elt("bed-time", d.bed_time), time_elt("wake-time", d.wake_time),
                       Leaf("sleep-minutes", ToString(d.sleep_minutes[1])),
                       Leaf("settling-minutes", ToString(d.settling_minutes[1]))>>
                     \o [i \in DOMAIN d.awakening |->
                            Node("awakening", <<time_elt("when", d.awakening[i].when),
                                                Leaf("minutes", ToString(d.awakening[i].minutes[1]))>>)]
                     \o [i \in DOMAIN d.medications |-> codable_elt("medications", d.medications[i])]
                     \o <<Leaf("wake-state", "2")>>)

\* weight measurements; the display value is in pounds, its units attribute
\* spelt "lb" or, as in the recorded response of tests/test_conn.py, "lbs"
WeightData == {[when |-> w, kg |-> <<k>>, lbs |-> <<26>>] : w \in Whens, k \in {11, 12}}
weight_elt(d, units) ==
    Node("weight", <<when_elt(d.when),
                     Node("value", <<Leaf("kg", ToString(d.kg[1])),
                                     Element("display", {<<"units", units>>, <<"units-code", "lb">>},
                                             <<ToString(d.lbs[1])>>, <<>>)>>)>>)

\* get_basic_demographic_info on a response holding one basic element
ParseBasic == Apply("get_basic_demographic_info", parse_basic(<<call.arg.elt>>))

\* get_blood_pressure_measurements on each blood-pressure element
ParseBloodPressure == Apply("get_blood_pressure_measurements", parse_blood_pressure(<<call.arg.elt>>))

\* parse_blood_glucose(elt)
ParseBloodGlucose == Apply("parse_blood_glucose", parse_blood_glucose(<<call.arg.elt>>))

\* parse_device(elt)
ParseDevice == Apply("parse_device", parse_device(<<call.arg.elt>>))

\* parse_exercise(elt)
ParseExercise == Apply("parse_exercise", parse_exercise(<<call.arg.elt>>))

\* parse_height(elt)
ParseHeight == Apply("parse_height", parse_height(<<call.arg.elt>>))

\* parse_sleep_session(elt)
ParseSleepSession == Apply("parse_sleep_session", parse_sleep_session(<<call.arg.elt>>))

\* parse_weight(elt)
ParseWeight == Apply("parse_weight", parse_weight(<<call.arg.elt>>))

\* The sub-elements the schema of each type makes optional, at every level.
\* In a date-time the time is optional, in an approx-date the month and the
\* day, in a time the seconds and their fraction, in a codable-value the codes.
Optional(fn) ==
    CASE fn = "get_basic_demographic_info" ->
            {<<"gender">>, <<"birthyear">>, <<"country">>, <<"postcode">>, <<"state">>}
      [] fn = "get_blood_pressure_measurements" ->
            {<<"pulse">>, <<"irregular-heartbeat">>, <<"when", "time">>}
      [] fn = "parse_blood_glucose" ->
            {<<"outside-operating-temp">>, <<"is-control-test">>, <<"normalcy">>, <<"measurement-context">>,
             <<"value", "display">>, <<"glucose-measurement-type", "code">>, <<"when", "time">>}
      [] fn = "parse_device" ->
            {<<"device-name">>, <<"vendor">>, <<"model">>, <<"serial-number">>, <<"anatomic-site">>,
             <<"description">>, <<"when", "time">>}
      [] fn = "parse_exercise" ->
            {<<"title">>, <<"distance">>, <<"duration">>, <<"detail">>, <<"segment">>, <<"activity", "code">>,
             <<"when", "structured", "date", "m">>, <<"when", "structured", "date", "d">>,
             <<"when", "structured", "time">>, <<"when", "structured", "tz">>}
      [] fn = "parse_height" -> {<<"value", "display">>, <<"when", "time">>}
      [] fn = "parse_sleep_session" ->
            {<<"awakening">>, <<"medications">>, <<"when", "time">>, <<"bed-time", "s">>, <<"bed-time", "f">>,
             <<"wake-time", "s">>, <<"wake-time", "f">>}
      [] fn = "parse_weight" -> {<<"value", "display">>, <<"when", "time">>}

\* the sub-elements the schema of each type mandates
Required(fn) ==
    CASE fn = "get_basic_demographic_info" -> {}
      [] fn = "get_blood_pressure_measurements" -> {<<"when">>, <<"systolic">>, <<"diastolic">>}
      [] fn = "parse_blood_glucose" -> {<<"when">>, <<"value">>, <<"glucose-measurement-type">>}
      [] fn = "parse_device" -> {<<"when">>}
      [] fn = "parse_exercise" -> {<<"when">>, <<"activity">>}
      [] fn = "parse_height" -> {<<"when">>, <<"value">>}
      [] fn = "parse_sleep_session" ->
            {<<"when">>, <<"bed-time">>, <<"wake-time">>, <<"sleep-minutes">>, <<"settling-minutes">>}
      [] fn = "parse_weight" -> {<<"when">>, <<"value">>}

\* when_to_datetime(when)
WhenToDatetime == Apply("when_to_datetime", when_to_datetime(<<call.arg.elt>>))

\* parse_approximate_date(elt)
ParseApproximateDate == Apply("parse_approximate_date", parse_approximate_date(<<call.arg.elt>>))

\* <group><thing><type-id/><data-xml>...</data-xml></thing>...</group>
group_elt(type_id, elts) ==
    Node("group", [i \in DOMAIN elts |-> Node("thing", <<Leaf("type-id", type_id), Node("data-xml", <<elts[i]>>)>>)])

\* parse_group(group)
ParseGroup == Apply("parse_group", parse_group(<<call.arg.elt>>))

\* crypto.pad_rsa(hashed_msg)
PadRsa == Apply("pad_rsa", pad_rsa(call.arg))

\* the applications a behaviour may start with
Calls ==
    {Pending("_get_exception_class_for", code) : code \in (-MaxStatusCode)..MaxStatusCode}
    \cup {Pending("format_datetime", datetime(y, mo, d, h, mi, sec)) :
            y \in {1999, 2012}, mo \in {1, 11, 12}, d \in {1, 28}, h \in {0, 11, 23},
            mi \in {0, 24, 59}, sec \in {0, 59}}
    \cup {Pending("get_basic_demographic_info", Thing(basic_elt(d), d, TRUE, {})) : d \in BasicData}
    \cup {Pending("get_blood_pressure_measurements", Thing(blood_pressure_elt(d), d, TRUE, {})) : d \in BloodPressureData}
    \cup {Pending("parse_blood_glucose", Thing(blood_glucose_elt(d), d, TRUE, {})) : d \in BloodGlucoseData}
    \cup {Pending("parse_device", Thing(device_elt(d), d, TRUE, {})) : d \in DeviceData}
    \cup {Pending("parse_exercise", Thing(exercise_elt(d), d, TRUE, {})) : d \in ExerciseData}
    \cup {Pending("parse_height", Thing(height_elt(d), d, TRUE, {})) : d \in HeightData}
    \cup {Pending("parse_sleep_session", Thing(sleep_session_elt(d), d, TRUE, {})) : d \in SleepSessionData}
    \cup {Pending("parse_weight", Thing(weight_elt(d, units), d, TRUE, {})) : d \in WeightData, units \in {"lb", "lbs"}}
    \cup {Pending("get_basic_demographic_info", Thing(Without(basic_elt(d), ps), d, FALSE, ps)) :
            d \in BasicData, ps \in {Optional("get_basic_demographic_info")} \cup {{q} : q \in Optional("get_basic_demographic_info") \cup Required("get_basic_demographic_info")}}
    \cup {Pending("get_blood_pressure_measurements", Thing(Without(blood_pressure_elt(d), ps), d, FALSE, ps)) :
            d \in BloodPressureData, ps \in {Optional("get_blood_pressure_measurements")} \cup {{q} : q \in Optional("get_blood_pressure_measurements") \cup Required("get_blood_pressure_measurements")}}
    \cup {Pending("parse_blood_glucose", Thing(Without(blood_glucose_elt(d), ps), d, FALSE, ps)) :
            d \in BloodGlucoseData, ps \in {Optional("parse_blood_glucose")} \cup {{q} : q \in Optional("parse_blood_glucose") \cup Required("parse_blood_glucose")}}
    \cup {Pending("parse_device", Thing(Without(device_elt(d), ps), d, FALSE, ps)) : d \in DeviceData, ps \in {Optional("parse_device")} \cup {{q} : q \in Optional("parse_device") \cup Required("parse_device")}}
    \cup {Pending("parse_exercise", Thing(Without(exercise_elt(d), ps), d, FALSE, ps)) : d \in ExerciseData, ps \in {Optional("parse_exercise")} \cup {{q} : q \in Optional("parse_exercise") \cup Required("parse_exercise")}}
    \cup {Pending("parse_height", Thing(Without(height_elt(d), ps), d, FALSE, ps)) : d \in HeightData, ps \in {Optional("parse_height")} \cup {{q} : q \in Optional("parse_height") \cup Required("parse_height")}}
    \cup {Pending("parse_sleep_session", Thing(Without(sleep_session_elt(d), ps), d, FALSE, ps)) :
            d \in SleepSessionData, ps \in {Optional("parse_sleep_session")} \cup {{q} : q \in Optional("parse_sleep_session") \cup Required("parse_sleep_session")}}
    \cup {Pending("parse_weight", Thing(Without(weight_elt(d, "lb"), ps), d, FALSE, ps)) : d \in WeightData, ps \in {Optional("parse_weight")} \cup {{q} : q \in Optional("parse_weight") \cup Required("parse_weight")}}
    \cup {Pending("parse_group", Thing(group_elt("3b3e6b16-eb69-483c-8d7e-dfe116ae6092", <<basic_elt(d)>>),
                                       d, TRUE, {})) : d \in BasicData}
    \cup {Pending("parse_group", Thing(group_elt("ca3c57f4-f4c1-4e15-be67-0a3caf5414ed", <<blood_pressure_elt(d)>>),
                                       <<d>>, TRUE, {})) : d \in BloodPressureData}
    \cup {Pending("parse_group", Thing(group_elt("85a21ddb-db20-4c65-8d30-33c899ccf612", <<exercise_elt(d)>>),
                                       <<d>>, TRUE, {})) : d \in ExerciseData}
    \cup {Pending("parse_group", Thing(group_elt("40750a6a-89b2-455c-bd8d-b420a4cb500b", <<height_elt(d)>>),
                                       <<d>>, TRUE, {})) : d \in HeightData}
    \cup {Pending("parse_group", Thing(group_elt("3d34d87e-7fc1-4153-800f-f56592cb0d17", <<weight_elt(d, "lb")>>),
                                       <<d>>, TRUE, {})) : d \in WeightData}
    \cup {Pending("parse_group", Thing(group_elt(id, <<height_elt(d)>>), <<>>, TRUE, {})) :
            id \in {"00000000-0000-0000-0000-000000000000", "HEIGHT_MEASUREMENTS"}, d \in HeightData}
    \cup {Pending("parse_group", Thing(group_elt("40750a6a-89b2-455c-bd8d-b420a4cb500b", <<>>), <<>>, TRUE, {}))}
    \cup {Pending("pad_rsa", [i \in 1..n |-> b]) : n \in 0..MaxHashLen, b \in {0, 171, 255}}
    \cup {Pending("when_to_datetime", Thing(Without(when_elt(w), missing), w, FALSE, missing)) :
            w \in Whens,
            missing \in SUBSET {<<"date", "y">>, <<"date", "m">>, <<"date", "d">>,
                                <<"time", "h">>, <<"time", "m">>, <<"time", "s">>}}
    \cup {Pending("parse_approximate_date",
                  Thing(Without(when_elt(w).children[1], missing), w, FALSE, missing)) :
            w \in Whens, missing \in SUBSET {<<"y">>, <<"m">>, <<"d">>}}

FnInit ==
    /\ ConnInit
    /\ call \in Calls

FnNext ==
    \/ Classify
    \/ FormatDatetime
    \/ ParseBasic
    \/ ParseBloodPressure
    \/ ParseBloodGlucose
    \/ ParseDevice
    \/ ParseExercise
    \/ ParseHeight
    \/ ParseSleepSession
    \/ ParseWeight
    \/ WhenToDatetime
    \/ ParseApproximateDate
    \/ ParseGroup
    \/ PadRsa

FnSpec == FnInit /\ [][FnNext]_vars

\* ------------------------------------------------------------ properties
HasValue(x) == x \notin {None, Unset}
GoodBody(resp) == ~resp.sock /\ resp.http = 200 /\ resp.code = OK
LacksIds(resp) == GoodBody(resp) /\ (resp.selected_record_id = Absent \/ resp.person_id = Absent)
LastResp == last.recv[Len(last.recv)]
EnvelopeOps == {"_build_and_send_request", "get_things", "alternate_id", "unsubscribe_to_event",
                "get_measurements", "get_alternate_ids", "get_event_subscriptions"}

\* C1: in every reachable state is_authorized() is True exactly when the
\* connection holds a record id and a person id resolved from a GetPersonInfo
\* response.
C1_AuthorizedIffResolved ==
    is_authorized(Self) <=> (record_id \in RecordIds /\ person_id \in PersonIds)

\* C1 witness: an authorized connection on which a later connect raised.
C1_Witness ==
    last.op = "connect" /\ last.exc # NoExc /\ last.before.authorized /\ is_authorized(Self)

\* C2: record_id and person_id are both absent or both set; no call leaves
\* exactly one of them populated.
C2_BindingBothOrNeither ==
    HasValue(record_id) <=> HasValue(person_id)

\* C2 witness: on a connection with no binding, connect read a response that
\* has the selected-record-id element but no person-id element.
C2_Witness ==
    /\ last.op = "connect" /\ Len(last.recv) = 1
    /\ GoodBody(last.recv[1])
    /\ last.recv[1].selected_record_id # Absent /\ last.recv[1].person_id = Absent
    /\ ~HasValue(last.before.record_id) /\ ~HasValue(record_id)

\* C3: when the GetPersonInfo response lacks the selected-record-id or the
\* person-id element, connect raises HealthVaultException and leaves record_id,
\* person_id and authorized as they were; construction with a wctoken raises
\* HealthVaultException and yields no connection, with nothing resolved.
C3_FailedResolutionKeepsState ==
    /\ (last.op = "connect" /\ Len(last.recv) = 1 /\ LacksIds(last.recv[1])) =>
          /\ last.exc = HealthVaultException
          /\ record_id = last.before.record_id
          /\ person_id = last.before.person_id
          /\ authorized = last.before.authorized
    /\ (last.op = "__init__" /\ Len(last.recv) = 2 /\ LacksIds(last.recv[2])) =>
          /\ last.exc = HealthVaultException
          /\ phase = "failed"
          /\ record_id = None /\ person_id = Unset /\ ~authorized

\* C3 witness: connect on an authorized connection read a response lacking an id.
C3_Witness ==
    /\ last.op = "connect" /\ Len(last.recv) = 1 /\ LacksIds(last.recv[1])
    /\ last.before.authorized /\ HasValue(record_id)

\* C4: after a successful construction with a wctoken, or a successful
\* connect(wctoken), wctoken is the supplied token, record_id and person_id are
\* the selected-record-id and person-id of the GetPersonInfo response, and
\* is_authorized() is True.
C4_SuccessfulResolutionStoresResponse ==
    (/\ last.op = "connect" \/ (last.op = "__init__" /\ last.args.wctoken # None)
     /\ last.exc = NoExc) =>
        /\ wctoken = last.args.wctoken
        /\ Len(last.recv) >= 1
        /\ record_id = LastResp.selected_record_id
        /\ person_id = LastResp.person_id
        /\ is_authorized(Self)

\* C4 witness: a construction with a wctoken that returned.
C4_Witness ==
    last.op = "__init__" /\ last.args.wctoken \in Tokens /\ last.exc = NoExc /\ phase = "ready"

\* C5: construction without a wctoken sends no GetPersonInfo and at most one
\* request; when it returns it has sent exactly one request,
\* CreateAuthenticatedSessionToken, auth_token is the token of the response,
\* wctoken is None and is_authorized() is False.
C5_ConstructionWithoutToken ==
    (last.op = "__init__" /\ last.args.wctoken = None) =>
        /\ Len(sent) <= 1
        /\ \A i \in DOMAIN sent : sent[i].method = "CreateAuthenticatedSessionToken"
        /\ wctoken = None
        /\ ~is_authorized(Self)
        /\ last.exc = NoExc =>
              /\ Len(sent) = 1
              /\ auth_token = last.recv[1].token
              /\ auth_token \in AuthTokens

\* C5 witness: a construction without a wctoken that returned.
C5_Witness ==
    last.op = "__init__" /\ last.args.wctoken = None /\ last.exc = NoExc /\ phase = "ready"

\* C6: connect on a constructed connection, authorized or not, always sends
\* one GetPersonInfo request carrying the token just supplied (it never fails
\* as a usage error), and on success record_id and person_id are those of the
\* response just read, replacing earlier values.
C6_ConnectRepeatsResolution ==
    last.op = "connect" =>
        /\ Len(sent) = 1
        /\ sent[1].method = "GetPersonInfo"
        /\ sent[1].user_auth_token = last.args.wctoken
        /\ last.exc \notin {ValueError, AttributeError}
        /\ last.exc = NoExc =>
              /\ record_id = last.recv[1].selected_record_id
              /\ person_id = last.recv[1].person_id

\* C6 witness: connect on an already authorized connection replaced the token
\* and the binding by different ones.
C6_Witness ==
    /\ last.op = "connect" /\ last.exc = NoExc
    /\ last.before.authorized
    /\ wctoken # last.before.wctoken
    /\ record_id # last.before.record_id /\ person_id # last.before.person_id

\* the last call sent a request carrying the user token and the platform
\* answered it with status 7, 65 or 11
UserTokenRejected ==
    /\ Len(sent) >= 1 /\ sent[Len(sent)].user_auth_token \in Tokens
    /\ last.exc = HealthVaultException
    /\ last.code \in {CREDENTIAL_TOKEN_EXPIRED, AUTHENTICATED_SESSION_TOKEN_EXPIRED, ACCESS_DENIED}

\* C7 as stated: after a request carrying the user token is rejected with
\* status 7, 65 or 11, record_id and person_id are unknown/empty.
C7_RejectedTokenInvalidatesBinding ==
    UserTokenRejected => (~HasValue(record_id) /\ ~HasValue(person_id))

\* C7 as amended: a request carrying the user token that is rejected with
\* status 7, 65 or 11 leaves record_id, person_id and authorized as they were
\* before the call; the connection does not invalidate its binding.
C7_RejectedTokenKeepsBinding ==
    (UserTokenRejected /\ last.op # "__init__") =>
        /\ record_id = last.before.record_id
        /\ person_id = last.before.person_id
        /\ authorized = last.before.authorized

\* C7 witness: get_things on an authorized connection was rejected.
C7_Witness ==
    UserTokenRejected /\ last.op = "get_things" /\ is_authorized(Self) /\ HasValue(record_id)

\* the constructor read a CreateAuthenticatedSessionToken response with no token element
NoTokenInResponse ==
    last.op = "__init__" /\ Len(last.recv) >= 1 /\ GoodBody(last.recv[1]) /\ last.recv[1].token = Absent

\* C8: when the CreateAuthenticatedSessionToken response has no token element,
\* construction raises HealthVaultException, yields no connection, and the only
\* request sent is CreateAuthenticatedSessionToken (no GetPersonInfo), also
\* when a wctoken was supplied.
C8_NoTokenIsFatal ==
    NoTokenInResponse =>
        /\ last.exc = HealthVaultException
        /\ phase = "failed"
        /\ Len(sent) = 1
        /\ sent[1].method = "CreateAuthenticatedSessionToken"
        /\ ~is_authorized(Self)

\* C8 witness: such a construction with a wctoken supplied.
C8_Witness ==
    NoTokenInResponse /\ last.args.wctoken \in Tokens

\* the last call went through the envelope builder asking for an identifier
\* the connection did not have
MissingIdentifier ==
    /\ last.op \in EnvelopeOps
    /\ \/ last.args.use_record_id /\ ~HasValue(last.before.record_id)
       \/ last.args.use_target_person_id /\ ~HasValue(last.before.person_id)
       \/ last.args.use_wctoken /\ ~HasValue(last.before.wctoken)

\* C9: whenever a required identifier (record id, person id, user token) is
\* requested but not available, the envelope builder raises ValueError and
\* sends no request, in every state of the connection.
C9_MissingIdentifierIsValueError ==
    MissingIdentifier => (last.exc = ValueError /\ sent = <<>>)

\* C10: for an HTTP 200 response _send_request returns when status/code is 0,
\* and for a nonzero status/code raises the exception kind the classifier
\* assigns to the code, with the code attribute equal to it.
C10_StatusRaisesClassifiedKind ==
    (last.op = "_send_request" /\ Len(last.recv) = 1 /\ ~last.recv[1].sock /\ last.recv[1].http = 200) =>
        IF last.recv[1].code = OK
        THEN last.exc = NoExc
        ELSE /\ last.exc = _get_exception_class_for(last.recv[1].code)
             /\ last.code = last.recv[1].code

\* C11: _get_exception_class_for(code) is a total lookup: the expired kind for
\* 7 and for 65, the access-denied kind for 11, and the generic kind for every
\* other integer code; it never raises.
C11_ClassifierTable ==
    (call.fn = "_get_exception_class_for" /\ call.done) =>
        /\ call.exc = NoExc
        /\ call.ret = IF call.arg \in {CREDENTIAL_TOKEN_EXPIRED, AUTHENTICATED_SESSION_TOKEN_EXPIRED}
                      THEN HealthVaultTokenExpiredException
                      ELSE IF call.arg = ACCESS_DENIED
                      THEN HealthVaultAccessDeniedException
                      ELSE HealthVaultException

\* the last response the last call read came with an HTTP status other than 200
Non200 ==
    Len(last.recv) >= 1 /\ ~LastResp.sock /\ LastResp.http # 200

\* C12: when the HTTP status of a response is not 200, the call raises
\* HealthVaultException at once: whatever the body holds is not used (the
\* exception carries no status code, nothing of the body is stored), no
\* request follows it, and the connection's fields are as they were when the
\* request was sent.
C12_Non200RaisesImmediately ==
    Non200 =>
        /\ last.exc = HealthVaultException
        /\ last.code = NoCode
        /\ Len(sent) = Len(last.recv)
        /\ last.op # "__init__" =>
              /\ Len(sent) = 1
              /\ record_id = last.before.record_id
              /\ person_id = last.before.person_id
              /\ authorized = last.before.authorized
              /\ auth_token = last.before.auth_token
              /\ sharedsec = last.before.sharedsec
              /\ wctoken = IF last.op = "connect" THEN last.args.wctoken ELSE last.before.wctoken
        /\ last.op = "__init__" =>
              /\ phase = "failed"
              /\ ~authorized /\ record_id = None /\ person_id = Unset
              /\ Len(last.recv) = 1 => auth_token = Unset

\* C12 witness: connect on an authorized connection read a non-200 answer whose
\* body is a complete, successful GetPersonInfo response naming another record.
C12_Witness ==
    /\ Non200 /\ last.op = "connect" /\ last.before.authorized
    /\ LastResp.code = OK
    /\ LastResp.selected_record_id \in RecordIds \ {record_id}
    /\ LastResp.person_id \in PersonIds \ {person_id}

\* a call that returned has read, for every request it sent, a response that
\* arrived, had HTTP status 200 and parsed to status/code 0
ReturnsAfterResponses ==
    /\ Len(last.recv) = Len(sent)
    /\ last.exc = NoExc => \A i \in DOMAIN last.recv : GoodBody(last.recv[i])

\* C13 as stated: every public operation (construction, connect, every query,
\* alternate-id or subscription method) performs at most one network exchange
\* per call and returns only after its response has been read and parsed.
C13_AtMostOneExchange ==
    Len(sent) <= 1 /\ ReturnsAfterResponses

\* C13 as amended: every public operation performs at most one network
\* exchange per call, except construction with a wctoken, which performs at
\* most two (CreateAuthenticatedSessionToken, then GetPersonInfo); a call
\* returns only after the response to every request it sent has been read and
\* parsed.
C13_OneExchangeExceptConstruction ==
    /\ Len(sent) <= (IF last.op = "__init__" /\ last.args.wctoken # None THEN 2 ELSE 1)
    /\ Len(sent) = 2 =>
          sent[1].method = "CreateAuthenticatedSessionToken" /\ sent[2].method = "GetPersonInfo"
    /\ ReturnsAfterResponses

\* C13 witness: a construction with a wctoken returned after two exchanges.
C13_Witness ==
    last.op = "__init__" /\ last.exc = NoExc /\ Len(sent) = 2 /\ Len(last.recv) = 2

\* C14: constructing a connection with a public_key or a private_key that is
\* not a long raises ValueError before any network request is made.
C14_KeysMustBeLong ==
    (last.op = "__init__" /\ (~last.args.public_key_long \/ ~last.args.private_key_long)) =>
        /\ last.exc = ValueError
        /\ sent = <<>> /\ last.recv = <<>>
        /\ phase = "failed"

\* C14 witness: a construction with a long public key, a private key that is
\* not a long, and a wctoken.
C14_Witness ==
    /\ last.op = "__init__" /\ last.args.public_key_long /\ ~last.args.private_key_long
    /\ last.args.wctoken \in Tokens

\* the positions in sent of the payloads the envelope builder produced
Enveloped ==
    {i \in DOMAIN sent : sent[i].method \notin {"CreateAuthenticatedSessionToken", "PAYLOAD"}}

\* the flags the last call gave the envelope builder (construction with a
\* wctoken builds its GetPersonInfo request through connect)
BuilderFlags ==
    IF last.op = "__init__"
    THEN Args(None, "GetPersonInfo", FALSE, FALSE, TRUE)
    ELSE last.args

\* C15: every payload the envelope builder produces is the auth section, the
\* header and the info fragment, in that order; the header carries the method
\* name and version asked for, always the app auth-token, a record-id exactly
\* when use_record_id, a target-person-id exactly when use_target_person_id
\* and a user-auth-token exactly when use_wctoken, each with the connection's
\* current value; the info fragment is the one passed in.
C15_EnvelopeContents ==
    \A i \in Enveloped :
        /\ sent[i].layout = <<"auth", "header", "info">>
        /\ sent[i].method = BuilderFlags.method
        /\ sent[i].method_version = BuilderFlags.method_version
        /\ sent[i].auth_token = auth_token /\ HasValue(auth_token)
        /\ sent[i].record_id = IF BuilderFlags.use_record_id THEN record_id ELSE Absent
        /\ sent[i].target_person_id = IF BuilderFlags.use_target_person_id THEN person_id ELSE Absent
        /\ sent[i].user_auth_token = IF BuilderFlags.use_wctoken THEN wctoken ELSE Absent
        /\ sent[i].auth = hmac_sha1(sharedsec, Header(sent[i].method, sent[i].method_version,
                                sent[i].target_person_id, sent[i].record_id, sent[i].auth_token,
                                sent[i].user_auth_token, sent[i].info_hash))
        /\ last.op = "_build_and_send_request" => sent[i].info = last.args.info

\* C15 witness: _build_and_send_request was called on an authorized connection
\* with version 2, use_record_id and use_target_person_id but not use_wctoken,
\* and sent its payload.
C15_Witness ==
    /\ last.op = "_build_and_send_request" /\ Len(sent) = 1
    /\ last.args.method_version = 2
    /\ last.args.use_record_id /\ last.args.use_target_person_id /\ ~last.args.use_wctoken
    /\ sent[1].record_id \in RecordIds /\ sent[1].user_auth_token = Absent

\* C16: the info-hash an enveloped payload carries is base64(SHA-1(info)) of
\* exactly the info fragment that payload carries; taking the hash as
\* injective, it is the hash of no other fragment, so payloads built from
\* different fragments carry different info-hash values.
C16_InfoHashBindsFragment ==
    \A i \in Enveloped :
        /\ sent[i].info_hash = sha1(sent[i].info)
        /\ last.op = "_build_and_send_request" =>
              \A f \in Fragments : (sent[i].info_hash = sha1(f)) <=> (f = last.args.info)

\* C16 witness: _build_and_send_request sent a payload built from the fragment
\* "<info/>", whose info-hash is not that of the other fragment.
C16_Witness ==
    /\ last.op = "_build_and_send_request" /\ Len(sent) = 1
    /\ last.args.info = "<info/>" /\ sent[1].info = "<info/>"
    /\ sent[1].info_hash # sha1("<info>BOO</info>")

\* C17: format_datetime(dt) renders dt in the form CCYY-MM-DDThh:mm:ss: the
\* six fields of the result are, in order, the year, month, day, hour, minute
\* and second of dt.
C17_FormatIsYearToSecond ==
    (call.fn = "format_datetime" /\ call.done) =>
        /\ call.exc = NoExc
        /\ call.ret = Pad4(call.arg.year) \o "-" \o Pad2(call.arg.month) \o "-" \o Pad2(call.arg.day)
                          \o "T" \o Pad2(call.arg.hour) \o ":" \o Pad2(call.arg.minute)
                          \o ":" \o Pad2(call.arg.second)

\* subscribe_to_event refused the url: nothing generated, sent or changed
SubscribeRefused ==
    /\ last.exc = ValueError
    /\ last.drawn = <<>> /\ sent = <<>> /\ last.recv = <<>>
    /\ Self = last.before

\* subscribe_to_event generated one key of 64 raw bytes, and every request it
\* sent is a SubscribeToEvent request containing that key base64-encoded, the
\* url and one type-id per requested thing type in the given order, and
\* carrying no user-auth-token
SubscribeRequests ==
    /\ Len(last.drawn) = 1 /\ last.drawn[1].len = 64
    /\ \A i \in DOMAIN sent :
          /\ sent[i].method = "SubscribeToEvent"
          /\ sent[i].info.notification_key = base64_encodestring(last.drawn[1])
          /\ sent[i].info.url = last.args.url
          /\ sent[i].info.type_ids = last.args.thing_types
          /\ sent[i].user_auth_token = Absent

\* subscribe_to_event, when it returned, returned the subscription id of the
\* response and the key that was sent
SubscribeReturn ==
    last.exc = NoExc =>
        /\ Len(sent) = 1 /\ Len(last.ret) = 2
        /\ last.ret[1] = IF LastResp.subscription_id = Absent THEN None ELSE LastResp.subscription_id
        /\ last.ret[2] = sent[1].info.notification_key

\* C18 as stated: subscribe_to_event(url, thing_types) with a url that does not
\* start with https:// raises ValueError before any key is generated or any
\* request is sent; otherwise it sends exactly one SubscribeToEvent request
\* containing a freshly generated random key of 64 raw bytes (base64-encoded)
\* and one type-id per requested thing type in the given order, carrying no
\* user-auth-token, and returns the subscription id of the response and the
\* key that was sent.
C18_SubscribeAlwaysSends ==
    last.op = "subscribe_to_event" =>
        IF ~startswith(last.args.url, "https://")
        THEN SubscribeRefused
        ELSE Len(sent) = 1 /\ SubscribeRequests /\ SubscribeReturn

\* C18 as amended: with a url that does not start with https:// it raises
\* ValueError before any key is generated or any request is sent; otherwise it
\* generates one random key of 64 raw bytes and, on a connection that holds a
\* record id, sends exactly one SubscribeToEvent request as described (on a
\* connection without one it sends nothing); when the exchange succeeds it
\* returns the subscription id of the response and the key that was sent.
C18_SubscribeToEvent ==
    last.op = "subscribe_to_event" =>
        IF ~startswith(last.args.url, "https://")
        THEN SubscribeRefused
        ELSE /\ Len(sent) = IF HasValue(last.before.record_id) THEN 1 ELSE 0
             /\ SubscribeRequests /\ SubscribeReturn

\* C18 witness: a subscription to two thing types on an https URL returned
\* the subscription id of the response.
C18_Witness ==
    /\ last.op = "subscribe_to_event" /\ last.exc = NoExc
    /\ startswith(last.args.url, "https://")
    /\ Len(last.args.thing_types) = 2
    /\ last.ret[1] \in SubscriptionIds

\* the query string q has the parameter k with the quoted value v
HasParameter(q, k, v) ==
    \E j \in DOMAIN q : q[j][1] = k /\ q[j][2] = quote_plus(v)

\* the value of parameter k of the query string q, unquoted
Parameter(q, k) ==
    (q[CHOOSE j \in DOMAIN q : q[j][1] = k][2])[2]

\* C19: authorization_url(callback_url) is a pure string construction: it
\* performs no network exchange, draws nothing at random and leaves every
\* field unchanged; the URL it returns is determined by the app id, the shell
\* server and the callback: https://<shell_server>/redirect.aspx? with the two
\* parameters target=APPAUTH and targetqs, the latter being the URL-encoding
\* of the query string that URL-encodes the app id and the callback.
C19_AuthorizationUrlIsPure ==
    last.op = "authorization_url" =>
        /\ last.exc = NoExc
        /\ sent = <<>> /\ last.recv = <<>> /\ last.drawn = <<>>
        /\ Self = last.before
        /\ Len(last.ret) = 1
        /\ last.ret[1].scheme = "https://"
        /\ last.ret[1].host = shell_server
        /\ last.ret[1].path = "/redirect.aspx"
        /\ Len(last.ret[1].query) = 2
        /\ HasParameter(last.ret[1].query, "target", "APPAUTH")
        /\ \E j \in DOMAIN last.ret[1].query : last.ret[1].query[j][1] = "targetqs"
        /\ LET targetqs == Parameter(last.ret[1].query, "targetqs")
           IN  /\ Len(targetqs) = 2
               /\ HasParameter(targetqs, "appid", app_id)
               /\ HasParameter(targetqs, "redirect", last.args.callback_url)

\* C19 witness: authorization_url was called on an authorized connection and
\* returned a URL whose targetqs holds the callback.
C19_Witness ==
    /\ last.op = "authorization_url" /\ authorized
    /\ last.args.callback_url = "https://ourown.server.com/"
    /\ Parameter(Parameter(last.ret[1].query, "targetqs"), "redirect") = "https://ourown.server.com/"

\* the functions that turn the things of a response into Python values, one
\* per supported data type
DataParsers ==
    {"get_basic_demographic_info", "get_blood_pressure_measurements", "parse_blood_glucose",
     "parse_device", "parse_exercise", "parse_height", "parse_sleep_session", "parse_weight"}

\* C20: for every supported data type, parsing a thing in which every
\* optional field is populated returns a value that holds every one of those
\* fields with the value the thing carries: none is None, none is dropped.
C20_FullResponseReproduced ==
    (call.fn \in DataParsers /\ call.done /\ call.arg.populated) =>
        (call.exc = NoExc /\ call.ret = call.arg.data)

\* C22: whenever is_authorized() is True after a call, the stored wctoken,
\* record_id and person_id belong to one resolution: either the call was a
\* connect or a construction that returned, storing the token it was given with
\* the ids of the response it read, or the call left the token and the binding
\* of an already authorized connection as they were.  A connect that fails
\* included.
C22_BindingResolvedWithCurrentToken ==
    [][authorized' =>
          \/ /\ authorized
             /\ wctoken' = wctoken /\ record_id' = record_id /\ person_id' = person_id
          \/ /\ last'.op \in {"connect", "__init__"} /\ last'.exc = NoExc
             /\ wctoken' = last'.args.wctoken
             /\ record_id' = last'.recv[Len(last'.recv)].selected_record_id
             /\ person_id' = last'.recv[Len(last'.recv)].person_id]_vars

\* C23: authorized is monotonic: no call on a connection for which
\* is_authorized() is True leaves it False, a connect that raises and a
\* request rejected with a nonzero status (7, 11, 65) included.
C23_AuthorizedIsMonotonic ==
    [][authorized => authorized']_vars

\* C23 witness: on an authorized connection a connect was rejected with the
\* token-expiry status.
C23_Witness ==
    /\ last.op = "connect" /\ last.before.authorized
    /\ last.exc = HealthVaultException /\ last.code = CREDENTIAL_TOKEN_EXPIRED
    /\ is_authorized(Self)

\* every enveloped request of the last call carries the app auth token the
\* connection got from a CreateAuthenticatedSessionToken exchange that
\* succeeded (in a construction: the exchange just before it), and a
\* construction whose exchange failed sent nothing else
AuthenticatedFirst ==
    /\ \A i \in Enveloped :
          /\ auth_token \in AuthTokens
          /\ sent[i].auth_token = auth_token
          /\ last.op = "__init__" =>
                /\ i = 2 /\ sent[1].method = "CreateAuthenticatedSessionToken"
                /\ GoodBody(last.recv[1]) /\ sent[i].auth_token = last.recv[1].token
    /\ (/\ last.op = "__init__" /\ Len(last.recv) >= 1
        /\ (~GoodBody(last.recv[1]) \/ last.recv[1].token = Absent)) =>
          /\ Len(sent) = 1 /\ sent[1].method = "CreateAuthenticatedSessionToken"
          /\ phase = "failed"

\* C24: no request built by the envelope builder is sent before a
\* CreateAuthenticatedSessionToken exchange has succeeded for the connection,
\* every such request carries the auth token that exchange returned, and when
\* the exchange fails the connection sends no other request: no call follows
\* a failed construction.
C24_AuthenticatedBeforeEnveloped ==
    [][phase # "failed" /\ AuthenticatedFirst']_vars

\* C24 witness: get_things on a constructed connection sent its request with
\* the auth token of the construction.
C24_Witness ==
    /\ last.op = "get_things" /\ Len(sent) = 1 /\ Enveloped = {1}
    /\ auth_token \in AuthTokens /\ sent[1].auth_token = auth_token

\* C25: sharedsec and auth_token are fixed at construction: no call on a
\* constructed connection changes either, whether it succeeds or fails, a
\* failure with the session-expiry status included; the
\* CreateAuthenticatedSessionToken request registers sharedsec and every
\* enveloped request is HMAC-keyed with it.
C25_SecretAndAuthTokenFixed ==
    [][/\ phase = "ready" => (sharedsec' = sharedsec /\ auth_token' = auth_token)
       /\ \A i \in DOMAIN sent' :
             /\ sent'[i].method = "CreateAuthenticatedSessionToken" => sent'[i].shared_secret = sharedsec'
             /\ sent'[i].method \notin {"CreateAuthenticatedSessionToken", "PAYLOAD"} =>
                   sent'[i].auth = hmac_sha1(sharedsec',
                                             Header(sent'[i].method, sent'[i].method_version,
                                                    sent'[i].target_person_id, sent'[i].record_id,
                                                    sent'[i].auth_token, sent'[i].user_auth_token,
                                                    sent'[i].info_hash))]_vars

\* C25 witness: a query on a constructed connection was rejected with the
\* session-expiry status and the secret and the auth token are those it had.
C25_Witness ==
    /\ last.op = "get_things" /\ last.code = AUTHENTICATED_SESSION_TOKEN_EXPIRED
    /\ Len(sent) = 1
    /\ sharedsec = last.before.sharedsec /\ auth_token = last.before.auth_token
    /\ auth_token \in AuthTokens /\ sharedsec \in SharedSecs

\* dt with the fields at the missing paths taken as zero
ZeroDefault(dt, missing) ==
    datetime(IF <<"date", "y">> \in missing THEN 0 ELSE dt.year,
             IF <<"date", "m">> \in missing THEN 0 ELSE dt.month,
             IF <<"date", "d">> \in missing THEN 0 ELSE dt.day,
             IF <<"time", "h">> \in missing THEN 0 ELSE dt.hour,
             IF <<"time", "m">> \in missing THEN 0 ELSE dt.minute,
             IF <<"time", "s">> \in missing THEN 0 ELSE dt.second)

\* C26: when_to_datetime decodes a when element from its six numeric
\* sub-elements: whichever of them are missing, each missing one is taken as
\* zero and the date-time of the six values is returned.
C26_WhenDefaultsMissingToZero ==
    (call.fn = "when_to_datetime" /\ call.done) =>
        /\ call.exc = NoExc
        /\ call.ret = ZeroDefault(call.arg.data, call.arg.absent)

\* C27: parse_approximate_date decodes a date from its y, m and d
\* sub-elements: whichever of m and d are missing, each missing one is taken
\* as zero and a date is returned.
C27_ApproximateDateDefaultsToZero ==
    (call.fn = "parse_approximate_date" /\ call.done /\ <<"y">> \notin call.arg.absent) =>
        /\ call.exc = NoExc
        /\ call.ret = [year |-> call.arg.data.year,
                       month |-> IF <<"m">> \in call.arg.absent THEN 0 ELSE call.arg.data.month,
                       day |-> IF <<"d">> \in call.arg.absent THEN 0 ELSE call.arg.data.day]

\* the result holds None, or the empty list, for every absent optional
\* sub-element of the type
AbsentOptionalsAreNone(fn, ret) ==
    CASE fn = "get_basic_demographic_info" ->
            /\ ret.gender = <<>> /\ ret.birthyear = <<>> /\ ret.country_text = <<>>
            /\ ret.country_code = <<>> /\ ret.postcode = <<>> /\ ret.state = <<>>
      [] fn = "get_blood_pressure_measurements" -> ret.pulse = <<>> /\ ret.irregular_heartbeat = <<>>
      [] fn = "parse_blood_glucose" ->
            /\ ret.outside_operating_temperature = <<>> /\ ret.is_control_test = <<>>
            /\ ret.normalcy = <<>> /\ ret.measurement_context = <<>>
            /\ ret.value.display = <<>> /\ ret.glucose_measurement_type.code = <<>>
      [] fn = "parse_device" ->
            /\ ret.device_name = <<>> /\ ret.vendor = <<>> /\ ret.model = <<>>
            /\ ret.serial_number = <<>> /\ ret.description = <<>>
      [] fn = "parse_exercise" ->
            /\ ret.title = <<>> /\ ret.distance = <<>> /\ ret.duration = <<>>
            /\ ret.detail = <<>> /\ ret.segment = <<>> /\ ret.activity.code = <<>>
            /\ ret.when.structured.time = <<>> /\ ret.when.structured.tz = <<>>
      [] fn = "parse_height" -> ret.value.display = <<>>
      [] fn = "parse_sleep_session" -> ret.awakening = <<>> /\ ret.medications = <<>>
      [] fn = "parse_weight" -> ret.lbs = <<>>

\* C21: for every supported data type, parsing a record from which every
\* schema-optional sub-element is absent, at every nesting level, does not
\* raise, and the result holds None for each absent single element and the
\* empty list for each absent repeated one.
C21_AbsentOptionalsNeverRaise ==
    (call.fn \in DataParsers /\ call.done /\ call.arg.absent = Optional(call.fn)) =>
        /\ call.exc = NoExc
        /\ AbsentOptionalsAreNone(call.fn, call.ret)

\* the one sub-element absent from the thing the last application parsed, when
\* it is one of ps
OneAbsent(ps) == call.fn \in DataParsers /\ call.done /\ \E p \in ps : call.arg.absent = {p}

\* the optional substructures of an exercise
ExerciseOptionals == {<<"title">>, <<"distance">>, <<"duration">>, <<"detail">>, <<"segment">>}

\* the mandated sub-elements that are read with int_or_none / float_or_none
ReadOrNone ==
    {<<"systolic">>, <<"diastolic">>, <<"sleep-minutes">>, <<"settling-minutes">>}
    \cup (IF call.fn = "parse_weight" THEN {<<"value">>} ELSE {})

SupportedTypeIds ==
    {"3b3e6b16-eb69-483c-8d7e-dfe116ae6092", "ca3c57f4-f4c1-4e15-be67-0a3caf5414ed",
     "ef9cf8d5-6c0b-4292-997f-4047240bc7be", "85a21ddb-db20-4c65-8d30-33c899ccf612",
     "40750a6a-89b2-455c-bd8d-b420a4cb500b", "11c52484-7f1a-11db-aeac-87d355d89593",
     "3d34d87e-7fc1-4153-800f-f56592cb0d17"}

\* the type-id of the first thing of the group parse_group was handed, if any
GroupTypeId == Find(<<call.arg.elt>>, <<"thing", "type-id">>)

\* C29: parse_group selects the parser by the type identifier in the group's
\* thing/type-id: a group with no thing yields the empty list, a group whose
\* type identifier is a supported data type yields that type's parsed
\* payload, and a group whose type identifier is not a supported data type
\* raises HealthVaultException and returns no payload.
C29_GroupDispatch ==
    (call.fn = "parse_group" /\ call.done) =>
        IF Len(GroupTypeId) = 0
        THEN call.exc = NoExc /\ call.ret = <<>>
        ELSE IF GroupTypeId[1].text[1] \in SupportedTypeIds
        THEN call.exc = NoExc /\ call.ret = call.arg.data
        ELSE call.exc = HealthVaultException

\* C30: pad_rsa returns a block of exactly em bytes (256 for the 2048-bit
\* modulus) laid out as 0x00 0x01, 0xFF padding, 0x00, the DigestInfo prefix
\* and the digest whenever prefix plus digest plus 3 fits within em bytes, and
\* raises, returning no block, when it does not fit.
C30_PadRsaFitsOrFails ==
    (call.fn = "pad_rsa" /\ call.done) =>
        LET prefix == <<48, 33, 48, 9, 6, 5, 43, 14, 3, 2, 26, 5, 0, 4, 20>>
            n == Len(call.arg)
            padlen == em - 15 - n - 3
        IN  IF 15 + n + 3 <= em
            THEN /\ call.exc = NoExc
                 /\ em = 256
                 /\ Len(call.ret) = em
                 /\ call.ret[1] = 0 /\ call.ret[2] = 1
                 /\ \A k \in 3..(2 + padlen) : call.ret[k] = 255
                 /\ call.ret[3 + padlen] = 0
                 /\ SubSeq(call.ret, 4 + padlen, 18 + padlen) = prefix
                 /\ SubSeq(call.ret, 19 + padlen, em) = call.arg
            ELSE call.exc # NoExc

====
